---- MODULE Spec2Model ----
(***************************************************************************)
(* A model of the binary-layout engine of the ts-sdk repository: layouts   *)
(* (items.ts, where layout.ts is appended), the fixed/dynamic partitioner  *)
(* (fixedDynamic.ts) and the serializer, deserializer and size calculator  *)
(* as the specification describes them.                                    *)
(*                                                                         *)
(* Integers are kept as sign and magnitude over base-256 digits, least     *)
(* significant digit first, so that widths above six bytes (the bigint      *)
(* widths of the engine) are computed exactly.                              *)
(***************************************************************************)
EXTENDS Integers, Sequences, FiniteSets, TLC

\* ------------------------------------------------------------------ bounds

\* longest byte block and longest array drawn as an input value
MaxBlob == 2
MaxElems == 2

\* ------------------------------------------------------- program constants

ByteBase == 256
numberMaxSize == 6
defaultEndianness_little == "little"
defaultEndianness == "big"

\* ------------------------------------------------------------ sequences

RECURSIVE Reverse(_)
Reverse(s) == IF s = <<>> THEN <<>> ELSE Reverse(Tail(s)) \o <<Head(s)>>

Take(s, n) == SubSeq(s, 1, n)
Drop(s, n) == SubSeq(s, n + 1, Len(s))

RECURSIVE Zeros(_)
Zeros(n) == IF n <= 0 THEN <<>> ELSE <<0>> \o Zeros(n - 1)

\* ------------------------------------------------------------- integers

\* the digits of a natural number, least significant first, no leading zero
RECURSIVE Digits(_)
Digits(n) == IF n = 0 THEN <<>> ELSE <<n % ByteBase>> \o Digits(n \div ByteBase)

\* drop the most significant zero digits
RECURSIVE Trim(_)
Trim(d) ==
  IF d = <<>> THEN <<>>
  ELSE IF d[Len(d)] = 0 THEN Trim(Take(d, Len(d) - 1)) ELSE d

\* number | bigint, as NumSizeToPrimitive gives it for a width
NumTypeOf(size) == IF size > numberMaxSize THEN "bigint" ELSE "number"

MkNum(ty, neg, mag) == [k |-> "num", ty |-> ty, neg |-> neg, mag |-> mag]

\* a small integer as a value of the primitive type of the given width
Num(n, size) ==
  MkNum(NumTypeOf(size), n < 0, Digits(IF n < 0 THEN 0 - n ELSE n))

\* 2^(8*size) - 1 and 2^(8*size - 1) as digit sequences
RECURSIVE AllOnes(_)
AllOnes(size) == IF size = 0 THEN <<>> ELSE <<ByteBase - 1>> \o AllOnes(size - 1)

HalfPow(size) == Zeros(size - 1) \o <<ByteBase \div 2>>

\* magnitude + 1 and magnitude - 1 (the latter for a magnitude above zero)
RECURSIVE Inc(_)
Inc(d) ==
  IF d = <<>> THEN <<1>>
  ELSE IF Head(d) = ByteBase - 1 THEN <<0>> \o Inc(Tail(d))
  ELSE <<Head(d) + 1>> \o Tail(d)

RECURSIVE DecRaw(_)
DecRaw(d) ==
  IF Head(d) = 0 THEN <<ByteBase - 1>> \o DecRaw(Tail(d))
  ELSE <<Head(d) - 1>> \o Tail(d)

Dec(d) == Trim(DecRaw(d))

\* a < b on trimmed magnitudes
RECURSIVE MagLess(_, _)
MagLess(a, b) ==
  IF Len(a) # Len(b) THEN Len(a) < Len(b)
  ELSE IF a = <<>> THEN FALSE
  ELSE IF a[Len(a)] # b[Len(b)] THEN a[Len(a)] < b[Len(b)]
  ELSE MagLess(Take(a, Len(a) - 1), Take(b, Len(b) - 1))

MagLeq(a, b) == a = b \/ MagLess(a, b)

\* 2^(8*size) - magnitude for 0 < magnitude <= 2^(8*size - 1), on size digits
Complement(mag, size) ==
  LET padded == mag \o Zeros(size - Len(mag))
      flipped == [i \in 1..size |-> (ByteBase - 1) - padded[i]]
  IN  Take(Inc(flipped), size)

\* ---------------------------------------------------------------- values

\* decoded values: numbers, byte blocks, strings, booleans, undefined,
\* objects (a function from field names to values) and arrays
Blob(b) == [k |-> "bytes", b |-> b]
Str(s) == [k |-> "str", s |-> s]
Text(cp) == [k |-> "text", cp |-> cp]
Bool(v) == [k |-> "bool", v |-> v]
Undef == [k |-> "undef"]
Obj(f) == [k |-> "obj", f |-> f]
Arr(e) == [k |-> "arr", e |-> e]

EmptyObj == Obj([n \in {} |-> Undef])
Field(n, v) == [x \in {n} |-> v]

\* { ...a, ...b }
Merge(a, b) ==
  [n \in (DOMAIN a) \union (DOMAIN b) |-> IF n \in DOMAIN b THEN b[n] ELSE a[n]]

\* obj[name], undefined when the property is absent
Prop(v, n) ==
  IF v.k = "obj" THEN (IF n \in DOMAIN v.f THEN v.f[n] ELSE Undef) ELSE Undef

\* results of an operation that may throw
Ok(b) == [k |-> "ok", b |-> b]
Err(m) == [k |-> "err", m |-> m]
IsErr(r) == r.k = "err"

\* ----------------------------------------------------------- conversions

NoCustom == [c |-> "none"]
PrimCustom(v) == [c |-> "prim", v |-> v]
FixedConversion(from, to) == [c |-> "fixed", from |-> from, to |-> to]
CustomConversion(fn) == [c |-> "fn", fn |-> fn]
EnumConversion(entries) == [c |-> "fn", fn |-> "enum", entries |-> entries]

\* boolItem: to
boolTo(permissive, encoded) ==
  IF encoded.mag = <<>> THEN Bool(FALSE)
  ELSE IF permissive \/ (encoded.mag = <<1>> /\ ~encoded.neg) THEN Bool(TRUE)
  ELSE Err("Invalid bool value")

\* boolItem: from with its two numbers exchanged
boolFrom_exchanged(value) == IF value.v THEN Num(0, 1) ELSE Num(1, 1)

\* boolItem: from
boolFrom(value) == IF value.v THEN Num(1, 1) ELSE Num(0, 1)

\* enumItem: to, valueToName built from the entries (a later entry wins)
RECURSIVE enumTo(_, _, _)
enumTo(entries, size, encoded) ==
  IF entries = <<>> THEN Err("Invalid enum value")
  ELSE LET last == entries[Len(entries)]
       IN  IF Num(last[2], size) = encoded THEN Str(last[1])
           ELSE enumTo(Take(entries, Len(entries) - 1), size, encoded)

\* enumItem: from, nameToValue built from the entries; undefined for no entry
RECURSIVE enumFrom(_, _, _)
enumFrom(entries, size, name) ==
  IF entries = <<>> THEN Undef
  ELSE LET last == entries[Len(entries)]
       IN  IF Str(last[1]) = name THEN Num(last[2], size)
           ELSE enumFrom(Take(entries, Len(entries) - 1), size, name)

\* TextEncoder.encode on code points below 0x800
RECURSIVE utf8Encode(_)
utf8Encode(cp) ==
  IF cp = <<>> THEN <<>>
  ELSE (IF Head(cp) < 128 THEN <<Head(cp)>>
        ELSE <<192 + (Head(cp) \div 64), 128 + (Head(cp) % 64)>>)
       \o utf8Encode(Tail(cp))

\* TextDecoder.decode: an ill-formed byte decodes to U+FFFD
RECURSIVE utf8Decode(_)
utf8Decode(b) ==
  IF b = <<>> THEN <<>>
  ELSE IF Head(b) < 128 THEN <<Head(b)>> \o utf8Decode(Tail(b))
  ELSE IF /\ Head(b) >= 194 /\ Head(b) < 224 /\ Len(b) >= 2
          /\ b[2] >= 128 /\ b[2] < 192
       THEN <<(Head(b) - 192) * 64 + (b[2] - 128)>> \o utf8Decode(Drop(b, 2))
  ELSE <<65533>> \o utf8Decode(Tail(b))

\* optionItem: to and from over the record of baseOptionItem
optionTo(obj) ==
  IF Prop(obj, "isSome") = Bool(TRUE) THEN Prop(obj, "value") ELSE Undef

optionFrom(value) ==
  IF value = Undef THEN Obj(Field("isSome", Bool(FALSE)))
  ELSE Obj(Merge(Field("isSome", Bool(TRUE)), Field("value", value)))

\* cOptionItem: to and from over the record of baseCOptionLayout
COptionConversion(defaultValue) ==
  [c |-> "fn", fn |-> "cOption", defaultValue |-> defaultValue]

cOptionTo(obj) ==
  IF Prop(obj, "isSome") = Bool(TRUE) THEN Prop(obj, "value") ELSE Undef

cOptionFrom(defaultValue, value) ==
  IF value = Undef
  THEN Obj(Merge(Field("isSome", Bool(FALSE)), Field("value", defaultValue)))
  ELSE Obj(Merge(Field("isSome", Bool(TRUE)), Field("value", value)))

\* bitsetItem: bit i of the encoded number is the flag of bitnames[i + 1];
\* an empty name has no flag
BitsetConversion(bitnames) == [c |-> "fn", fn |-> "bitset", bitnames |-> bitnames]

\* bits counted from one
BitOf_fromOne(mag, i) ==
  IF ((i + 1) \div 8) + 1 > Len(mag) THEN 0
  ELSE (mag[((i + 1) \div 8) + 1] \div (2 ^ ((i + 1) % 8))) % 2

BitOf(mag, i) ==
  IF (i \div 8) + 1 > Len(mag) THEN 0
  ELSE (mag[(i \div 8) + 1] \div (2 ^ (i % 8))) % 2

bitsetTo(bitnames, encoded) ==
  LET named == { i \in 1..Len(bitnames) : bitnames[i] # "" }
  IN  Obj([n \in { bitnames[i] : i \in named } |->
             LET i == CHOOSE j \in named :
                        bitnames[j] = n /\ \A h \in named : bitnames[h] = n => h <= j
             IN  Bool(BitOf(encoded.mag, i - 1) = 1)])

\* the bits of one byte of val
RECURSIVE byteOfFlags(_, _, _, _)
byteOfFlags(bitnames, obj, byte, k) ==
  IF k = 8 THEN 0
  ELSE LET i == 8 * byte + k + 1
           set == /\ i <= Len(bitnames) /\ bitnames[i] # ""
                  /\ Prop(obj, bitnames[i]) = Bool(TRUE)
       IN  (IF set THEN 2 ^ k ELSE 0) + byteOfFlags(bitnames, obj, byte, k + 1)

\* a number is returned for at most numberMaxSize names, a bigint for more
bitsetFrom(bitnames, obj) ==
  LET bytes == (Len(bitnames) + 7) \div 8
      val == [b \in 1..bytes |-> byteOfFlags(bitnames, obj, b - 1, 0)]
  IN  MkNum(IF Len(bitnames) > numberMaxSize THEN "bigint" ELSE "number",
            FALSE, Trim(val))

\* a Date, by its milliseconds since the epoch
Date(ms) == [k |-> "date", ms |-> ms]

RECURSIVE MagValue(_)
MagValue(mag) == IF mag = <<>> THEN 0 ELSE Head(mag) + ByteBase * MagValue(Tail(mag))
IntOf(v) == IF v.neg THEN 0 - MagValue(v.mag) ELSE MagValue(v.mag)
OfInt(ty, n) == MkNum(ty, n < 0, Digits(IF n < 0 THEN 0 - n ELSE n))

\* timestampConversion(size)
TimestampConversion(size) ==
  [c |-> "fn",
   fn |-> IF size > numberMaxSize THEN "bigintTimestamp" ELSE "numberTimestamp"]

\* numberTimestampConversion: Math.floor rounds down, also below zero
numberTimestampTo(value) == Date(IntOf(value) * 1000)
numberTimestampFrom(value) == OfInt("number", value.ms \div 1000)

\* bigintTimestampConversion: BigInt throws on a number that is not whole
bigintTimestampTo(value) == Date(IntOf(value) * 1000)
bigintTimestampFrom(value) ==
  IF value.ms % 1000 # 0 THEN Err("RangeError")
  ELSE OfInt("bigint", value.ms \div 1000)

\* custom.to(raw) of a custom conversion
ConvTo(custom, size, raw) ==
  CASE custom.fn = "bool" -> boolTo(FALSE, raw)
    [] custom.fn = "boolPermissive" -> boolTo(TRUE, raw)
    [] custom.fn = "enum" -> enumTo(custom.entries, size, raw)
    [] custom.fn = "string" -> Text(utf8Decode(raw.b))
    [] custom.fn = "option" -> optionTo(raw)
    [] custom.fn = "cOption" -> cOptionTo(raw)
    [] custom.fn = "bitset" -> bitsetTo(custom.bitnames, raw)
    [] custom.fn = "numberTimestamp" -> numberTimestampTo(raw)
    [] custom.fn = "bigintTimestamp" -> bigintTimestampTo(raw)

\* custom.from(value) of a custom conversion
ConvFrom(custom, size, value) ==
  CASE custom.fn = "bool" -> boolFrom(value)
    [] custom.fn = "boolPermissive" -> boolFrom(value)
    [] custom.fn = "enum" -> enumFrom(custom.entries, size, value)
    [] custom.fn = "string" -> Blob(utf8Encode(value.cp))
    [] custom.fn = "option" -> optionFrom(value)
    [] custom.fn = "cOption" -> cOptionFrom(custom.defaultValue, value)
    [] custom.fn = "bitset" -> bitsetFrom(custom.bitnames, value)
    [] custom.fn = "numberTimestamp" -> numberTimestampFrom(value)
    [] custom.fn = "bigintTimestamp" -> bigintTimestampFrom(value)

\* ---------------------------------------------------------------- layouts

\* a Layout is one Item or a ProperLayout (a sequence of named items)
NoLayout == [p |-> "none"]
ItemLayout(i) == [p |-> "item", i |-> i]
ProperLayout(items) == [p |-> "proper", items |-> items]

\* the three ways a Bytes or Array item gets its length
Sized(n) == [m |-> "size", n |-> n]
LengthPrefixed(lengthSize, lengthEndianness) ==
  [m |-> "prefix", lengthSize |-> lengthSize, lengthEndianness |-> lengthEndianness]
Remainder == [m |-> "rest"]
\* a Bytes item that wraps a layout and has neither a size nor a prefix is as
\* long as what its layout writes: cOptionItem stands before other items of
\* tokenAccountLayout and mintAccountLayout
Wrapping == [m |-> "layout"]

NumItem(name, binary, size, endianness, custom, omit) ==
  [name |-> name, binary |-> binary, size |-> size, endianness |-> endianness,
   custom |-> custom, omit |-> omit]

BytesItem(name, len, layout, custom, omit) ==
  [name |-> name, binary |-> "bytes", len |-> len, layout |-> layout,
   custom |-> custom, omit |-> omit]

ArrayItem(name, len, layout) ==
  [name |-> name, binary |-> "array", len |-> len, layout |-> layout]

\* a variant identifier: a plain number or a [number, label] pair
PlainId(n) == [n |-> n, conv |-> FALSE, label |-> Undef]
ConversionId(n, label) == [n |-> n, conv |-> TRUE, label |-> label]

SwitchItem(name, idSize, idEndianness, idTag, layouts) ==
  [name |-> name, binary |-> "switch", idSize |-> idSize,
   idEndianness |-> idEndianness, idTag |-> idTag, layouts |-> layouts]

Named(name, item) == [item EXCEPT !.name = name]

IsNum(item) == item.binary \in {"int", "uint"}
\* an omit flag that is never honoured
IsOmitted_never(item) == FALSE

IsOmitted(item) == item.binary \in {"int", "uint", "bytes"} /\ item.omit
IdTagOf(item) == IF item.idTag = "" THEN "id" ELSE item.idTag
OrderOf(endianness) == IF endianness = "unset" THEN defaultEndianness ELSE endianness

\* ------------------------------------------------------ numeric encoding

\* a range check whose signed upper end is one too high
checkNumRange_inclusive(v, size, signed) ==
  IF signed THEN MagLeq(v.mag, HalfPow(size))
  ELSE ~v.neg /\ MagLeq(v.mag, AllOnes(size))

\* the raw value lies in [0, 2^(8 size) - 1], or for a signed item in
\* [-2^(8 size - 1), 2^(8 size - 1) - 1]
checkNumRange(v, size, signed) ==
  IF signed
  THEN IF v.neg THEN MagLeq(v.mag, HalfPow(size))
       ELSE MagLeq(v.mag, Dec(HalfPow(size)))
  ELSE ~v.neg /\ MagLeq(v.mag, AllOnes(size))

\* size bytes of the value, two's complement for a negative one
serializeNum(v, size, endianness, signed) ==
  IF v.k # "num" THEN Err("not a number")
  ELSE IF ~checkNumRange(v, size, signed) THEN Err("out of range")
  ELSE LET le == IF v.neg THEN Complement(v.mag, size)
                 ELSE v.mag \o Zeros(size - Len(v.mag))
       IN  Ok(IF OrderOf(endianness) = "big" THEN Reverse(le) ELSE le)

\* the value of exactly size bytes
deserializeNum(b, size, endianness, signed) ==
  LET le == IF OrderOf(endianness) = "big" THEN Reverse(b) ELSE b
      negative == signed /\ le[size] >= ByteBase \div 2
  IN  IF negative
      THEN MkNum(NumTypeOf(size), TRUE,
                 Trim(Inc([i \in 1..size |-> (ByteBase - 1) - le[i]])))
      ELSE MkNum(NumTypeOf(size), FALSE, Trim(le))

\* -------------------------------------------------------------- serializer

\* the raw value a Numeric item writes: the constant of a fixed item,
\* custom.from(value) of a custom conversion, the value itself otherwise
rawNumOf(item, value) ==
  CASE item.custom.c = "prim" -> item.custom.v
    [] item.custom.c = "fixed" -> item.custom.from
    [] item.custom.c = "fn" -> ConvFrom(item.custom, item.size, value)
    [] OTHER -> value

\* the content of a Bytes item that has no nested layout
rawBytesOf(item, value) ==
  CASE item.custom.c = "prim" -> item.custom.v
    [] item.custom.c = "fixed" -> item.custom.from
    [] item.custom.c = "fn" -> ConvFrom(item.custom, 0, value)
    [] OTHER -> value

\* the record a Bytes item with a nested layout serializes
nestedValueOf(item, value) ==
  CASE item.custom.c = "fixed" -> item.custom.from
    [] item.custom.c = "fn" -> ConvFrom(item.custom, 0, value)
    [] OTHER -> value

\* the content, then the length prefix
withLength_trailing(len, count, content) ==
  IF IsErr(content) THEN content
  ELSE IF len.m = "prefix"
  THEN LET prefix == serializeNum(Num(count, len.lengthSize), len.lengthSize,
                                  len.lengthEndianness, FALSE)
       IN  IF IsErr(prefix) THEN prefix ELSE Ok(content.b \o prefix.b)
  ELSE content

\* the length prefix, then the content
withLength(len, count, content) ==
  IF IsErr(content) THEN content
  ELSE IF len.m = "prefix"
  THEN LET prefix == serializeNum(Num(count, len.lengthSize), len.lengthSize,
                                  len.lengthEndianness, FALSE)
       IN  IF IsErr(prefix) THEN prefix ELSE Ok(prefix.b \o content.b)
  ELSE content

\* the variants of a Switch item whose identifier or label is the given one
findIdLayoutPair(item, id) ==
  { i \in 1..Len(item.layouts) :
      LET vid == item.layouts[i][1]
      IN  IF vid.conv THEN vid.label = id
          ELSE id.k = "num" /\ id.neg = FALSE /\ id.mag = Digits(vid.n) }

\* an unknown raw number falls back to the first variant
variantsForRaw_fallback(item, raw) ==
  LET found == { i \in 1..Len(item.layouts) : Digits(item.layouts[i][1].n) = raw.mag }
  IN  IF found = {} THEN {1} ELSE found

\* the variants of a Switch item whose identifier has the given raw number
variantsForRaw(item, raw) ==
  { i \in 1..Len(item.layouts) : Digits(item.layouts[i][1].n) = raw.mag }

Lowest(S) == CHOOSE i \in S : \A j \in S : i <= j

RECURSIVE serializeItem(_, _)
RECURSIVE serializeProper(_, _)
RECURSIVE serializeElements(_, _)
RECURSIVE internalSerialize(_, _)

serializeItem(item, value) ==
  CASE IsNum(item) ->
         LET raw == rawNumOf(item, value)
         IN  IF IsErr(raw) THEN raw
             ELSE serializeNum(raw, item.size, item.endianness, item.binary = "int")
    [] item.binary = "bytes" ->
         IF item.layout.p = "none"
         THEN LET raw == rawBytesOf(item, value)
              IN  IF IsErr(raw) THEN raw
                  ELSE IF raw.k # "bytes" THEN Err("not a byte block")
                  ELSE withLength(item.len, Len(raw.b), Ok(raw.b))
         ELSE LET nested == nestedValueOf(item, value)
                  content == IF IsErr(nested) THEN nested
                             ELSE internalSerialize(item.layout, nested)
              IN  withLength(item.len, IF IsErr(content) THEN 0 ELSE Len(content.b),
                             content)
    [] item.binary = "array" ->
         IF value.k # "arr" THEN Err("not an array")
         ELSE IF item.len.m = "size" /\ Len(value.e) # item.len.n
         THEN Err("wrong array length")
         ELSE withLength(item.len, Len(value.e),
                         serializeElements(item.layout, value.e))
    [] item.binary = "switch" ->
         LET found == findIdLayoutPair(item, Prop(value, IdTagOf(item)))
         IN  IF found = {} THEN Err("unmatched switch identifier")
             ELSE LET pair == item.layouts[Lowest(found)]
                      id == serializeNum(Num(pair[1].n, item.idSize), item.idSize,
                                         item.idEndianness, FALSE)
                      rest == serializeProper(pair[2], value)
                  IN  IF IsErr(id) THEN id
                      ELSE IF IsErr(rest) THEN rest
                      ELSE Ok(id.b \o rest.b)

serializeProper(items, value) ==
  IF items = <<>> THEN Ok(<<>>)
  ELSE LET head == serializeItem(Head(items), Prop(value, Head(items).name))
       IN  IF IsErr(head) THEN head
           ELSE LET tail == serializeProper(Tail(items), value)
                IN  IF IsErr(tail) THEN tail ELSE Ok(head.b \o tail.b)

serializeElements(layout, elements) ==
  IF elements = <<>> THEN Ok(<<>>)
  ELSE LET head == internalSerialize(layout, Head(elements))
       IN  IF IsErr(head) THEN head
           ELSE LET tail == serializeElements(layout, Tail(elements))
                IN  IF IsErr(tail) THEN tail ELSE Ok(head.b \o tail.b)

internalSerialize(layout, value) ==
  IF layout.p = "item" THEN serializeItem(layout.i, value)
  ELSE serializeProper(layout.items, value)

\* serialize(layout, value): the bytes, or the error thrown
serialize(layout, value) == internalSerialize(layout, value)

\* ------------------------------------------------------------ deserializer

\* a decoded value with the bytes of the current slice not yet read
Read(val, rest) == [k |-> "ok", val |-> val, rest |-> rest]

\* the decoded value of a Numeric item from its raw number
numValueOf(item, raw) ==
  CASE item.custom.c = "prim" -> item.custom.v
    [] item.custom.c = "fixed" -> item.custom.to
    [] item.custom.c = "fn" -> ConvTo(item.custom, item.size, raw)
    [] OTHER -> raw

\* the decoded value of a Bytes item from its block or its nested record
bytesValueOf(item, raw) ==
  CASE item.custom.c = "prim" -> item.custom.v
    [] item.custom.c = "fixed" -> item.custom.to
    [] item.custom.c = "fn" -> ConvTo(item.custom, 0, raw)
    [] OTHER -> raw

\* read an unsigned count or identifier of the given width
readCount(b, size, endianness) ==
  IF Len(b) < size THEN Err("insufficient bytes")
  ELSE Read(deserializeNum(Take(b, size), size, endianness, FALSE), Drop(b, size))

\* a magnitude as a count of at most the bytes that can follow; more than
\* that many can never be read
CountOf(mag, limit) ==
  IF Len(mag) > 2 THEN limit + 1
  ELSE LET n == IF mag = <<>> THEN 0
                ELSE IF Len(mag) = 1 THEN mag[1]
                ELSE mag[1] + ByteBase * mag[2]
       IN  IF n > limit THEN limit + 1 ELSE n

\* a slice that is as long as the bytes at hand allow
sliceOf_clamped(len, b) ==
  CASE len.m = "size" ->
         IF Len(b) < len.n THEN Read(Blob(b), <<>>)
         ELSE Read(Blob(Take(b, len.n)), Drop(b, len.n))
    [] len.m = "prefix" ->
         LET count == readCount(b, len.lengthSize, len.lengthEndianness)
         IN  IF IsErr(count) THEN count
             ELSE LET n == CountOf(count.val.mag, Len(count.rest))
                  IN  IF Len(count.rest) < n THEN Read(Blob(count.rest), <<>>)
                      ELSE Read(Blob(Take(count.rest, n)), Drop(count.rest, n))
    [] len.m = "rest" -> Read(Blob(b), <<>>)

\* the slice a Bytes item owns, and the bytes after it
sliceOf(len, b) ==
  CASE len.m = "size" ->
         IF Len(b) < len.n THEN Err("insufficient bytes")
         ELSE Read(Blob(Take(b, len.n)), Drop(b, len.n))
    [] len.m = "prefix" ->
         LET count == readCount(b, len.lengthSize, len.lengthEndianness)
         IN  IF IsErr(count) THEN count
             ELSE LET n == CountOf(count.val.mag, Len(count.rest))
                  IN  IF Len(count.rest) < n THEN Err("insufficient bytes")
                      ELSE Read(Blob(Take(count.rest, n)), Drop(count.rest, n))
    [] len.m = "rest" -> Read(Blob(b), <<>>)

RECURSIVE deserializeItem(_, _)
RECURSIVE deserializeProper(_, _, _)
RECURSIVE deserializeCounted(_, _, _, _)
RECURSIVE deserializeRemaining(_, _, _)
RECURSIVE internalDeserialize(_, _)

deserializeItem(item, b) ==
  CASE IsNum(item) ->
         IF Len(b) < item.size THEN Err("insufficient bytes")
         ELSE LET raw == deserializeNum(Take(b, item.size), item.size,
                                        item.endianness, item.binary = "int")
                  val == numValueOf(item, raw)
              IN  IF IsErr(val) THEN val ELSE Read(val, Drop(b, item.size))
    [] item.binary = "bytes" /\ item.len.m = "layout" ->
         LET nested == internalDeserialize(item.layout, b)
         IN  IF IsErr(nested) THEN nested
             ELSE LET val == bytesValueOf(item, nested.val)
                  IN  IF IsErr(val) THEN val ELSE Read(val, nested.rest)
    [] item.binary = "bytes" /\ item.len.m # "layout" ->
         LET slice == sliceOf(item.len, b)
         IN  IF IsErr(slice) THEN slice
             ELSE IF item.layout.p = "none"
             THEN LET val == bytesValueOf(item, slice.val)
                  IN  IF IsErr(val) THEN val ELSE Read(val, slice.rest)
             ELSE LET nested == internalDeserialize(item.layout, slice.val.b)
                  IN  IF IsErr(nested) THEN nested
                      ELSE LET val == bytesValueOf(item, nested.val)
                           IN  IF IsErr(val) THEN val ELSE Read(val, slice.rest)
    [] item.binary = "array" ->
         IF item.len.m = "size"
         THEN deserializeCounted(item.layout, item.len.n, b, <<>>)
         ELSE IF item.len.m = "prefix"
         THEN LET count == readCount(b, item.len.lengthSize,
                                     item.len.lengthEndianness)
              IN  IF IsErr(count) THEN count
                  ELSE deserializeCounted(item.layout,
                         CountOf(count.val.mag, Len(count.rest)), count.rest, <<>>)
         ELSE deserializeRemaining(item.layout, b, <<>>)
    [] item.binary = "switch" ->
         LET id == readCount(b, item.idSize, item.idEndianness)
         IN  IF IsErr(id) THEN id
             ELSE LET found == variantsForRaw(item, id.val)
                  IN  IF found = {} THEN Err("unrecognized switch identifier")
                      ELSE LET pair == item.layouts[Lowest(found)]
                               tag == IF pair[1].conv THEN pair[1].label ELSE id.val
                           IN  deserializeProper(pair[2], id.rest,
                                                 Field(IdTagOf(item), tag))

\* the fields read so far handed back when an item fails
deserializeProper_partial(items, b, acc) ==
  IF items = <<>> THEN Read(Obj(acc), b)
  ELSE LET head == deserializeItem(Head(items), b)
       IN  IF IsErr(head) THEN Read(Obj(acc), b)
           ELSE deserializeProper(Tail(items), head.rest,
                  IF IsOmitted(Head(items)) THEN acc
                  ELSE Merge(acc, Field(Head(items).name, head.val)))

\* the items in order, each from where the one before stopped; an omitted
\* item consumes its bytes and leaves no field
deserializeProper(items, b, acc) ==
  IF items = <<>> THEN Read(Obj(acc), b)
  ELSE LET head == deserializeItem(Head(items), b)
       IN  IF IsErr(head) THEN head
           ELSE deserializeProper(Tail(items), head.rest,
                  IF IsOmitted(Head(items)) THEN acc
                  ELSE Merge(acc, Field(Head(items).name, head.val)))

\* count elements, one after the other
deserializeCounted(layout, count, b, acc) ==
  IF count = 0 THEN Read(Arr(acc), b)
  ELSE LET head == internalDeserialize(layout, b)
       IN  IF IsErr(head) THEN head
           ELSE deserializeCounted(layout, count - 1, head.rest, Append(acc, head.val))

\* elements until the slice is used up
deserializeRemaining(layout, b, acc) ==
  IF b = <<>> THEN Read(Arr(acc), b)
  ELSE LET head == internalDeserialize(layout, b)
       IN  IF IsErr(head) THEN head
           ELSE IF Len(head.rest) = Len(b) THEN Err("empty element")
           ELSE deserializeRemaining(layout, head.rest, Append(acc, head.val))

internalDeserialize(layout, b) ==
  IF layout.p = "item" THEN deserializeItem(layout.i, b)
  ELSE deserializeProper(layout.items, b, [n \in {} |-> Undef])

\* deserialize(layout, bytes): the value, or the error thrown
deserialize(layout, b) == internalDeserialize(layout, b)

\* ---------------------------------------------------------- size calculator

Size(n) == [k |-> "size", n |-> n]
Absent == [k |-> "absent"]

prefixSize_uncounted(len) == 0
prefixSize(len) == IF len.m = "prefix" THEN len.lengthSize ELSE 0

RECURSIVE calcItemSize(_, _)
RECURSIVE calcProperSize(_, _)
RECURSIVE calcElementsSize(_, _)
RECURSIVE internalCalcSize(_, _)

\* the recursion of the serializer, counting bytes instead of writing them
calcItemSize(item, value) ==
  CASE IsNum(item) -> Size(item.size)
    [] item.binary = "bytes" ->
         IF item.len.m = "size" THEN Size(item.len.n)
         ELSE IF item.layout.p = "none"
         THEN LET raw == rawBytesOf(item, value)
              IN  IF IsErr(raw) THEN raw
                  ELSE IF raw.k # "bytes" THEN Err("not a byte block")
                  ELSE Size(prefixSize(item.len) + Len(raw.b))
         ELSE LET nested == nestedValueOf(item, value)
                  content == IF IsErr(nested) THEN nested
                             ELSE internalCalcSize(item.layout, nested)
              IN  IF IsErr(content) THEN content
                  ELSE Size(prefixSize(item.len) + content.n)
    [] item.binary = "array" ->
         IF value.k # "arr" THEN Err("not an array")
         ELSE LET content == calcElementsSize(item.layout, value.e)
              IN  IF IsErr(content) THEN content
                  ELSE Size(prefixSize(item.len) + content.n)
    [] item.binary = "switch" ->
         LET found == findIdLayoutPair(item, Prop(value, IdTagOf(item)))
         IN  IF found = {} THEN Err("unmatched switch identifier")
             ELSE LET rest == calcProperSize(item.layouts[Lowest(found)][2], value)
                  IN  IF IsErr(rest) THEN rest ELSE Size(item.idSize + rest.n)

calcProperSize(items, value) ==
  IF items = <<>> THEN Size(0)
  ELSE LET head == calcItemSize(Head(items), Prop(value, Head(items).name))
       IN  IF IsErr(head) THEN head
           ELSE LET tail == calcProperSize(Tail(items), value)
                IN  IF IsErr(tail) THEN tail ELSE Size(head.n + tail.n)

calcElementsSize(layout, elements) ==
  IF elements = <<>> THEN Size(0)
  ELSE LET head == internalCalcSize(layout, Head(elements))
       IN  IF IsErr(head) THEN head
           ELSE LET tail == calcElementsSize(layout, Tail(elements))
                IN  IF IsErr(tail) THEN tail ELSE Size(head.n + tail.n)

internalCalcSize(layout, value) ==
  IF layout.p = "item" THEN calcItemSize(layout.i, value)
  ELSE calcProperSize(layout.items, value)

calcSize(layout, value) == internalCalcSize(layout, value)

RECURSIVE calcStaticItemSize(_)
RECURSIVE calcStaticProperSize(_)
RECURSIVE internalCalcStaticSize(_)

\* the size every value of the item encodes to, when the schema alone fixes it
calcStaticItemSize(item) ==
  CASE IsNum(item) -> Size(item.size)
    [] item.binary = "bytes" ->
         IF item.len.m = "layout" THEN internalCalcStaticSize(item.layout)
         ELSE IF item.len.m # "size" THEN Absent
         ELSE IF item.layout.p = "none" THEN Size(item.len.n)
         ELSE IF internalCalcStaticSize(item.layout) = Absent THEN Absent
         ELSE Size(item.len.n)
    [] item.binary = "array" ->
         IF item.len.m # "size" THEN Absent
         ELSE LET element == internalCalcStaticSize(item.layout)
              IN  IF element = Absent THEN Absent
                  ELSE Size(item.len.n * element.n)
    [] item.binary = "switch" -> Absent

calcStaticProperSize(items) ==
  IF items = <<>> THEN Size(0)
  ELSE LET head == calcStaticItemSize(Head(items))
           tail == calcStaticProperSize(Tail(items))
       IN  IF head = Absent \/ tail = Absent THEN Absent
           ELSE Size(head.n + tail.n)

internalCalcStaticSize(layout) ==
  IF layout.p = "item" THEN calcStaticItemSize(layout.i)
  ELSE calcStaticProperSize(layout.items)

\* a size of 0 where the schema fixes none
calcStaticSize_zero(layout) ==
  IF internalCalcStaticSize(layout) = Absent THEN Size(0)
  ELSE internalCalcStaticSize(layout)

calcStaticSize(layout) == internalCalcStaticSize(layout)

\* ----------------------------------------------------- fixed/dynamic split

\* utils.ts, as fixedDynamic.ts uses it
isPrimitiveType(custom) == custom.c = "prim"
isFixedPrimitiveConversion(custom) ==
  custom.c = "fixed" /\ custom.from.k \in {"num", "bytes"}
isItem(layout) == layout.p = "item"
bytesItemHasLayout(item) == item.layout.p # "none"

\* the variants a find over item.layouts accepts for an identifier:
\* (Array.isArray(idOrConversionId) ? idOrConversionId[1] : idOrConversionId) == id
variantsFor(item, id) ==
  { i \in 1..Len(item.layouts) :
      LET idOrConversionId == item.layouts[i][1]
      IN  IF idOrConversionId.conv THEN idOrConversionId.label = id
          ELSE id.k = "num" /\ ~id.neg /\ id.mag = Digits(idOrConversionId.n) }

NullItem == [binary |-> "null"]
NullLayout == [p |-> "null"]

\* (fixed && isFixedItem || !fixed && !isFixedItem) ? item : null
keepIf(item, fixed, isFixedItem) ==
  IF (fixed /\ isFixedItem) \/ (~fixed /\ ~isFixedItem) THEN item ELSE NullItem

RECURSIVE filterItem(_, _)
RECURSIVE internalFilterItemsOfProperLayout(_, _)
RECURSIVE filterIdLayoutPairs(_, _)
RECURSIVE internalFilterItemsOf(_, _)

filterItem(item, fixed) ==
  CASE item.binary = "bytes" /\ bytesItemHasLayout(item) ->
         IF item.custom.c = "none"
         THEN IF isItem(item.layout) THEN filterItem(item.layout.i, fixed)
              ELSE LET filteredItems ==
                         internalFilterItemsOfProperLayout(item.layout.items, fixed)
                   IN  IF Len(filteredItems) > 0
                       THEN [item EXCEPT !.layout = ProperLayout(filteredItems)]
                       ELSE NullItem
         ELSE keepIf(item, fixed, item.custom.c # "fn")
    [] item.binary = "bytes" /\ ~bytesItemHasLayout(item) ->
         keepIf(item, fixed,
                isPrimitiveType(item.custom) \/ isFixedPrimitiveConversion(item.custom))
    [] IsNum(item) ->
         keepIf(item, fixed,
                isPrimitiveType(item.custom) \/ isFixedPrimitiveConversion(item.custom))
    [] item.binary = "array" ->
         LET filtered == internalFilterItemsOf(item.layout, fixed)
         IN  IF filtered # NullLayout THEN [item EXCEPT !.layout = filtered]
             ELSE NullItem
    [] item.binary = "switch" ->
         [item EXCEPT !.layouts = filterIdLayoutPairs(item.layouts, fixed)]

\* the reduce over item.layouts of the switch case
filterIdLayoutPairs(pairs, fixed) ==
  IF pairs = <<>> THEN <<>>
  ELSE LET filteredItems == internalFilterItemsOfProperLayout(Head(pairs)[2], fixed)
           tail == filterIdLayoutPairs(Tail(pairs), fixed)
       IN  IF Len(filteredItems) > 0
           THEN <<<<Head(pairs)[1], filteredItems>>>> \o tail
           ELSE tail

internalFilterItemsOfProperLayout(proper, fixed) ==
  IF proper = <<>> THEN <<>>
  ELSE LET filtered == filterItem(Head(proper), fixed)
           tail == internalFilterItemsOfProperLayout(Tail(proper), fixed)
       IN  IF filtered # NullItem THEN <<filtered>> \o tail ELSE tail

internalFilterItemsOf(layout, fixed) ==
  IF layout.p = "proper"
  THEN ProperLayout(internalFilterItemsOfProperLayout(layout.items, fixed))
  ELSE LET filtered == filterItem(layout.i, fixed)
       IN  IF filtered = NullItem THEN NullLayout ELSE ItemLayout(filtered)

filterItemsOf(layout, fixed) == internalFilterItemsOf(layout, fixed)
fixedItemsOf(layout) == filterItemsOf(layout, TRUE)
dynamicItemsOf(layout) == filterItemsOf(layout, FALSE)

\* x ?? {}
orEmpty(v) == IF v = Undef THEN EmptyObj ELSE v

RECURSIVE internalAddFixedValuesItem(_, _)
RECURSIVE addFixedValuesElements(_, _)
RECURSIVE addFixedValuesProper(_, _, _)
RECURSIVE internalAddFixedValues(_, _)

internalAddFixedValuesItem(item, dynamicValue) ==
  CASE item.binary = "bytes" /\ bytesItemHasLayout(item) ->
         IF item.custom.c # "fn"
         THEN internalAddFixedValues(item.layout,
                IF item.custom.c = "none" THEN dynamicValue ELSE item.custom.from)
         ELSE dynamicValue
    [] IsNum(item) \/ (item.binary = "bytes" /\ ~bytesItemHasLayout(item)) ->
         IF item.omit THEN Undef
         ELSE IF isPrimitiveType(item.custom) THEN item.custom.v
         ELSE IF isFixedPrimitiveConversion(item.custom) THEN item.custom.to
         ELSE dynamicValue
    [] item.binary = "array" ->
         IF dynamicValue.k = "arr"
         THEN addFixedValuesElements(item.layout, dynamicValue.e)
         ELSE Undef
    [] item.binary = "switch" ->
         LET id == Prop(dynamicValue, IdTagOf(item))
             found == variantsFor(item, id)
         IN  IF found = {} THEN Err("TypeError")
             ELSE LET rest == internalAddFixedValues(
                                ProperLayout(item.layouts[Lowest(found)][2]),
                                dynamicValue)
                  IN  IF IsErr(rest) THEN rest
                      ELSE Obj(Merge(Field(IdTagOf(item), id), rest.f))

\* dynamicValue.map(element => internalAddFixedValues(item.layout, element))
addFixedValuesElements(layout, elements) ==
  IF elements = <<>> THEN Arr(<<>>)
  ELSE LET head == internalAddFixedValues(layout, Head(elements))
           tail == addFixedValuesElements(layout, Tail(elements))
       IN  IF IsErr(head) THEN head
           ELSE IF IsErr(tail) THEN tail
           ELSE Arr(<<head>> \o tail.e)

\* the loop over the items of a proper layout
addFixedValuesProper(items, dynamicValues, ret) ==
  IF items = <<>> THEN Obj(ret)
  ELSE LET fixedVals == internalAddFixedValuesItem(
                          Head(items), orEmpty(Prop(dynamicValues, Head(items).name)))
       IN  IF IsErr(fixedVals) THEN fixedVals
           ELSE addFixedValuesProper(Tail(items), dynamicValues,
                  IF fixedVals # Undef
                  THEN Merge(ret, Field(Head(items).name, fixedVals))
                  ELSE ret)

internalAddFixedValues(layout, dynamicValues) ==
  IF isItem(layout)
  THEN internalAddFixedValuesItem(layout.i, orEmpty(dynamicValues))
  ELSE addFixedValuesProper(layout.items, orEmpty(dynamicValues), [n \in {} |-> Undef])

addFixedValues(layout, dynamicValues) == internalAddFixedValues(layout, dynamicValues)

\* ----------------------------------------------------------- setEndianness

\* setEndianness(layout, endianness) as its expected results fix it: the
\* order goes to every Numeric item, length prefix and switch identifier of
\* more than one byte, also over an order the item carries (enumItem carries
\* the default order and comes out with the new one); an identifier of one
\* byte gets no order (the switch of optionItem comes out as it went in)
RECURSIVE setItemEndianness(_, _)
RECURSIVE setProperEndianness(_, _)
RECURSIVE setPairsEndianness(_, _)
RECURSIVE setEndianness(_, _)

\* an order that is given only where none is carried
orderAfter_whereUnset(width, before, endianness) ==
  IF width = 1 \/ before # "unset" THEN before ELSE endianness

\* the order of a width after setEndianness
orderAfter(width, before, endianness) == IF width = 1 THEN before ELSE endianness

\* the length strategy of a Bytes or Array item after setEndianness
lengthAfter(len, endianness) ==
  IF len.m = "prefix"
  THEN [len EXCEPT !.lengthEndianness =
                     orderAfter(len.lengthSize, len.lengthEndianness, endianness)]
  ELSE len

setItemEndianness(item, endianness) ==
  CASE IsNum(item) ->
         [item EXCEPT !.endianness = orderAfter(item.size, item.endianness, endianness)]
    [] item.binary = "bytes" ->
         [item EXCEPT !.len = lengthAfter(item.len, endianness),
                      !.layout = IF item.layout.p = "none" THEN item.layout
                                 ELSE setEndianness(item.layout, endianness)]
    [] item.binary = "array" ->
         [item EXCEPT !.len = lengthAfter(item.len, endianness),
                      !.layout = setEndianness(item.layout, endianness)]
    [] item.binary = "switch" ->
         [item EXCEPT !.idEndianness =
                        orderAfter(item.idSize, item.idEndianness, endianness),
                      !.layouts = setPairsEndianness(item.layouts, endianness)]

setProperEndianness(items, endianness) ==
  IF items = <<>> THEN <<>>
  ELSE <<setItemEndianness(Head(items), endianness)>>
       \o setProperEndianness(Tail(items), endianness)

\* the variants of a switch left as they are
setPairsEndianness_shallow(pairs, endianness) == pairs

setPairsEndianness(pairs, endianness) ==
  IF pairs = <<>> THEN <<>>
  ELSE << <<Head(pairs)[1], setProperEndianness(Head(pairs)[2], endianness)>> >>
       \o setPairsEndianness(Tail(pairs), endianness)

\* a single item left as it is
setEndianness_properOnly(layout, endianness) ==
  IF layout.p = "item" THEN layout
  ELSE ProperLayout(setProperEndianness(layout.items, endianness))

setEndianness(layout, endianness) ==
  IF layout.p = "item" THEN ItemLayout(setItemEndianness(layout.i, endianness))
  ELSE ProperLayout(setProperEndianness(layout.items, endianness))

\* ----------------------------------------------------- layout combinators

\* a Bytes item that wraps the layout and converts what it decodes
transform(layout, custom) == BytesItem("", Wrapping, layout, custom, FALSE)

Restrict(f, keys) == [n \in (DOMAIN f) \cap keys |-> f[n]]
NamesOf(items) == { items[i].name : i \in 1..Len(items) }

\* layout.find(i => i.name === name)
findNamed(items, name) ==
  items[CHOOSE i \in 1..Len(items) :
          items[i].name = name /\ \A j \in 1..(i - 1) : items[j].name # name]

\* spread({ a: 1, n: { b: 2, c: 3 } }, "n") is { a: 1, b: 2, c: 3 }
objSpread(obj, name) ==
  Obj(Merge(Restrict(obj.f, (DOMAIN obj.f) \ {name}), obj.f[name].f))

\* nest({ a: 1, b: 2, c: 3 }, "n", ["b", "c"]) is { a: 1, n: { b: 2, c: 3 } }
objNest(obj, name, keys) ==
  Obj(Merge(Restrict(obj.f, (DOMAIN obj.f) \ keys),
            Field(name, Obj(Restrict(obj.f, keys)))))

SpreadConversion(layout, name) == [fn |-> "spread", layout |-> layout, name |-> name]
spreadTo(custom, derived) == Ok(objSpread(derived, custom.name))

\* the names come from the .layout of the named item, which only a Bytes
\* item wrapping a record has as a list
spreadFrom(custom, transformed) ==
  LET item == findNamed(custom.layout, custom.name)
  IN  IF item.binary = "bytes" /\ item.layout.p = "proper"
      THEN Ok(objNest(transformed, custom.name, NamesOf(item.layout.items)))
      ELSE Err("TypeError")

spread(layout, name) == transform(ProperLayout(layout), SpreadConversion(layout, name))

\* layout[0].name
singletonName_first(layout) == layout[1].name

\* layout.find(item => !item.omit).name
singletonName(layout) ==
  layout[CHOOSE i \in 1..Len(layout) :
           ~IsOmitted(layout[i]) /\ \A j \in 1..(i - 1) : IsOmitted(layout[j])].name

UnwrapConversion(layout) == [fn |-> "unwrapSingleton", name |-> singletonName(layout)]
unwrapTo(custom, derived) == Ok(Prop(derived, custom.name))
unwrapFrom(custom, unwrapped) == Ok(Obj(Field(custom.name, unwrapped)))

unwrapSingleton(layout) == transform(ProperLayout(layout), UnwrapConversion(layout))


\* ------------------------------------------------------- layouts under test

U8 == NumItem("", "uint", 1, "unset", NoCustom, FALSE)
I8 == NumItem("", "int", 1, "unset", NoCustom, FALSE)
U16 == NumItem("", "uint", 2, "unset", NoCustom, FALSE)
U16BE == NumItem("", "uint", 2, "big", NoCustom, FALSE)
U16LE == NumItem("", "uint", 2, "little", NoCustom, FALSE)
I16LE == NumItem("", "int", 2, "little", NoCustom, FALSE)
U48 == NumItem("", "uint", 6, "unset", NoCustom, FALSE)
I48LE == NumItem("", "int", 6, "little", NoCustom, FALSE)
U56 == NumItem("", "uint", 7, "unset", NoCustom, FALSE)
I64LE == NumItem("", "int", 8, "little", NoCustom, FALSE)

\* boolItem(permissive)
boolItem(permissive) ==
  NumItem("", "uint", 1, "unset",
          CustomConversion(IF permissive THEN "boolPermissive" ELSE "bool"), FALSE)

\* enumItem(entries, { size }), endianness falls back to the default
enumItem(entries, size) ==
  NumItem("", "uint", size, defaultEndianness, EnumConversion(entries), FALSE)

\* bitsetItem(bitnames): as many bytes as the names need, no endianness
bitsetItem(bitnames) ==
  NumItem("", "uint", (Len(bitnames) + 7) \div 8, "unset",
          BitsetConversion(bitnames), FALSE)

\* timestampItem(binary, size), endianness falls back to big
timestampItem(binary, size) ==
  NumItem("", binary, size, "big", TimestampConversion(size), FALSE)

\* customizableBytes(base, spec) for a Layout spec and for no spec
customizableBytes(name, len, layout) == BytesItem(name, len, layout, NoCustom, FALSE)

\* baseOptionItem(someType) and optionItem(someType)
baseOptionItem(someType) ==
  SwitchItem("", 1, "unset", "isSome",
    << <<ConversionId(0, Bool(FALSE)), <<>> >>,
       <<ConversionId(1, Bool(TRUE)),
         <<customizableBytes("value", Wrapping, someType)>> >> >>)

optionItem(optVal) ==
  BytesItem("", Wrapping, ItemLayout(baseOptionItem(optVal)),
            CustomConversion("option"), FALSE)

\* cOptionItem(layout, defaultValue, size) over baseCOptionLayout(layout, size)
baseCOptionLayout(layout, size) ==
  << Named("isSome", [boolItem(FALSE) EXCEPT !.size = size, !.endianness = "little"]),
     BytesItem("value", Wrapping, layout, NoCustom, FALSE) >>

cOptionItem(layout, defaultValue, size) ==
  BytesItem("", Wrapping, ProperLayout(baseCOptionLayout(layout, size)),
            COptionConversion(defaultValue), FALSE)

\* stringConversion on a length-prefixed block
stringItem(lengthSize) ==
  BytesItem("", LengthPrefixed(lengthSize, "unset"), NoLayout,
            CustomConversion("string"), FALSE)

RawBytes(len) == BytesItem("", len, NoLayout, NoCustom, FALSE)

\* constants: a fixed number, a fixed conversion, an omitted padding block
Const42 == NumItem("", "uint", 1, "unset", PrimCustom(Num(42, 1)), FALSE)
Version1 == NumItem("", "uint", 1, "unset", PrimCustom(Num(1, 1)), TRUE)
Seven == NumItem("", "uint", 1, "unset", FixedConversion(Num(7, 1), Str("seven")), FALSE)
Padding == BytesItem("", Sized(2), NoLayout, PrimCustom(Blob(<<0, 0>>)), TRUE)

Pair == << Named("a", U8), Named("b", U16LE) >>
Mixed == << Named("version", Version1), Named("x", U8) >>
AllFixed == << Named("c", Const42), Named("s", Seven) >>

PlainSwitch ==
  SwitchItem("", 1, "unset", "",
    << <<PlainId(1), << Named("a", U8) >> >>,
       <<PlainId(2), << Named("b", RawBytes(LengthPrefixed(1, "unset"))),
                        Named("c", I8) >> >> >>)

\* a switch whose variants are equally long
EvenSwitch ==
  SwitchItem("", 1, "unset", "",
    << <<PlainId(1), << Named("a", U16) >> >>,
       <<PlainId(2), << Named("b", U8), Named("c", I8) >> >> >>)

LabelSwitch ==
  SwitchItem("", 2, "little", "type",
    << <<ConversionId(1, Str("nums")), << Named("u", U16LE) >> >>,
       <<ConversionId(3, Str("none")), <<>> >>,
       <<ConversionId(6, Str("misc")), << Named("version", Version1),
                                          Named("e", boolItem(FALSE)) >> >> >>)

\* the switch of the setEndianness tests: no order on its identifier of two
\* bytes nor on the items of its variants
complexSwitchLayout ==
  SwitchItem("", 2, "unset", "type",
    << <<ConversionId(1, Str("nums")), << Named("uint", U16),
                                          Named("int", [I16LE EXCEPT !.endianness = "unset"]) >> >>,
       <<ConversionId(3, Str("lens")),
         << Named("custom", customizableBytes("", LengthPrefixed(2, "unset"),
                                              ItemLayout(U16))) >> >>,
       <<ConversionId(6, Str("misc")),
         << Named("enum", enumItem(<< <<"a", 1>>, <<"b", 2>> >>, 2)) >> >> >>)

\* a block with a nested record and a fixed conversion
FixedBlock ==
  BytesItem("", Sized(1), ProperLayout(<< Named("v", U8) >>),
            FixedConversion(Obj(Field("v", Num(1, 1))), Str("V1")), FALSE)

ItemLayouts ==
  { U8, I8, U16, U16BE, U16LE, I16LE, U48, I48LE, U56, I64LE,
    boolItem(FALSE), boolItem(TRUE), enumItem(<< <<"a", 1>>, <<"b", 2>> >>, 2),
    Const42, Seven,
    RawBytes(Sized(2)), RawBytes(LengthPrefixed(1, "unset")),
    RawBytes(LengthPrefixed(2, "little")), RawBytes(Remainder), stringItem(1),
    customizableBytes("", LengthPrefixed(1, "unset"), ProperLayout(Pair)),
    customizableBytes("", Sized(3), ProperLayout(Pair)),
    customizableBytes("", Wrapping, ItemLayout(I16LE)),
    cOptionItem(ItemLayout(U16LE), Num(0, 2), 2),
    customizableBytes("", Sized(3), ItemLayout(EvenSwitch)),
    optionItem(ItemLayout(U8)), FixedBlock,
    ArrayItem("", Sized(2), ItemLayout(U8)),
    ArrayItem("", LengthPrefixed(1, "unset"), ItemLayout(U16LE)),
    ArrayItem("", LengthPrefixed(2, "big"), ProperLayout(Mixed)),
    ArrayItem("", Remainder, ProperLayout(Pair)),
    ArrayItem("", Sized(2), ItemLayout(Const42)),
    ArrayItem("", Sized(1), ItemLayout(PlainSwitch)),
    PlainSwitch, LabelSwitch, complexSwitchLayout }

ProperLayouts ==
  { Pair, Mixed, AllFixed,
    << Named("header", Seven), Named("field2", U8),
       Named("field3", RawBytes(LengthPrefixed(1, "unset"))) >>,
    << Named("pad", Padding), Named("n", I8), Named("sw", PlainSwitch) >>,
    << Named("kind", LabelSwitch), Named("tail", RawBytes(Remainder)) >>,
    << Named("arr", ArrayItem("", LengthPrefixed(1, "unset"), ProperLayout(Pair))) >>,
    << Named("arr", ArrayItem("", Sized(2), ProperLayout(AllFixed))),
       Named("x", U8) >>,
    << Named("consts", ArrayItem("", Sized(2), ItemLayout(Const42))),
       Named("x", U8) >>,
    << Named("w", customizableBytes("", LengthPrefixed(1, "unset"), ItemLayout(U16))),
       Named("x", U8) >>,
    << Named("inner", customizableBytes("", Sized(3), ProperLayout(Pair))),
       Named("fixed", customizableBytes("", Sized(2), ProperLayout(AllFixed))),
       Named("text", stringItem(1)) >>,
    << Named("hdr", FixedBlock), Named("x", U8) >>,
    << Named("a", U8), Named("n", customizableBytes("", Sized(3), ProperLayout(Pair))) >>,
    << Named("x", U8), Named("opt", optionItem(ItemLayout(U8))) >>,
    << Named("delegate", cOptionItem(ItemLayout(U8), Num(0, 1), 2)),
       Named("state", enumItem(<< <<"Uninitialized", 0>>, <<"Initialized", 1>> >>, 1)),
       Named("isNative", cOptionItem(ItemLayout(I16LE), Num(0, 2), 2)) >> }

Layouts ==
  { ItemLayout(i) : i \in ItemLayouts } \union { ProperLayout(l) : l \in ProperLayouts }

\* ---------------------------------------------------------------- inputs

SampleBytes == {0, 255}
SampleCodePoints == {72, 233}

SeqsUpTo(S, n) == UNION { [1..m -> S] : m \in 0..n }

\* numbers at the ends of the range of a width; with wide, also the first
\* numbers outside of it
NumSamples(size, signed, wide) ==
  LET ty == NumTypeOf(size)
      zero == MkNum(ty, FALSE, <<>>)
      one == MkNum(ty, FALSE, <<1>>)
  IN  IF signed
      THEN {zero, MkNum(ty, TRUE, <<1>>),
            MkNum(ty, FALSE, Dec(HalfPow(size))), MkNum(ty, TRUE, HalfPow(size))}
           \union (IF wide THEN {MkNum(ty, FALSE, HalfPow(size)),
                                 MkNum(ty, TRUE, Inc(HalfPow(size)))}
                   ELSE {})
      ELSE {zero, one, MkNum(ty, FALSE, AllOnes(size))}
           \union (IF wide THEN {MkNum(ty, FALSE, Inc(AllOnes(size))),
                                 MkNum(ty, TRUE, <<1>>)}
                   ELSE {})

RECURSIVE ValuesOfItem(_, _)
RECURSIVE ObjectsOf(_, _)
RECURSIVE ValuesOf(_, _)

\* the values of a layout; with wide, also values with a number out of range
\* or a switch identifier that names no variant. A sized block of the layouts
\* above wraps a layout all of whose values are as long as the block.
ValuesOfItem(item, wide) ==
  CASE IsNum(item) ->
         IF item.custom.c = "prim" THEN {item.custom.v}
         ELSE IF item.custom.c = "fixed" THEN {item.custom.to}
         ELSE IF item.custom.c = "fn"
         THEN IF item.custom.fn = "enum"
              THEN { Str(item.custom.entries[i][1]) :
                       i \in 1..Len(item.custom.entries) }
              ELSE {Bool(FALSE), Bool(TRUE)}
         ELSE NumSamples(item.size, item.binary = "int", wide)
    [] item.binary = "bytes" /\ item.layout.p = "none" ->
         IF item.custom.c = "prim" THEN {item.custom.v}
         ELSE IF item.custom.c = "fixed" THEN {item.custom.to}
         ELSE IF item.custom.c = "fn"
         THEN { Text(cp) : cp \in SeqsUpTo(SampleCodePoints, MaxBlob) }
         ELSE IF item.len.m = "size"
         THEN { Blob(b) : b \in [1..item.len.n -> SampleBytes] }
         ELSE { Blob(b) : b \in SeqsUpTo(SampleBytes, MaxBlob) }
    [] item.binary = "bytes" /\ item.layout.p # "none" ->
         IF item.custom.c = "fixed" THEN {item.custom.to}
         ELSE IF item.custom.c = "fn"
         THEN { ConvTo(item.custom, 0, v) : v \in ValuesOf(item.layout, wide) }
         ELSE ValuesOf(item.layout, wide)
    [] item.binary = "array" ->
         LET elements == ValuesOf(item.layout, wide)
         IN  IF item.len.m = "size"
             THEN { Arr(e) : e \in [1..item.len.n -> elements] }
             ELSE { Arr(e) : e \in SeqsUpTo(elements, MaxElems) }
    [] item.binary = "switch" ->
         UNION { { Obj(Merge(Field(IdTagOf(item),
                                   IF item.layouts[i][1].conv
                                   THEN item.layouts[i][1].label
                                   ELSE Num(item.layouts[i][1].n, item.idSize)),
                             fields)) :
                     fields \in ObjectsOf(item.layouts[i][2], wide) } :
                 i \in 1..Len(item.layouts) }
         \union (IF wide
                 THEN { Obj(Merge(Field(IdTagOf(item), Str("unknown")), fields)) :
                          fields \in ObjectsOf(item.layouts[1][2], FALSE) }
                 ELSE {})

\* the fields of a record of a proper layout; an omitted item has no field
ObjectsOf(items, wide) ==
  IF items = <<>> THEN { [n \in {} |-> Undef] }
  ELSE IF IsOmitted(Head(items)) THEN ObjectsOf(Tail(items), wide)
  ELSE { Merge(Field(Head(items).name, v), rest) :
           v \in ValuesOfItem(Head(items), wide), rest \in ObjectsOf(Tail(items), wide) }

ValuesOf(layout, wide) ==
  IF layout.p = "item" THEN ValuesOfItem(layout.i, wide)
  ELSE { Obj(f) : f \in ObjectsOf(layout.items, wide) }

ValidValues(layout) == ValuesOf(layout, FALSE)
InvalidValues(layout) == ValuesOf(layout, TRUE) \ ValuesOf(layout, FALSE)

\* --------------------------------------------------------- dynamic values

RECURSIVE projectItem(_, _)
RECURSIVE projectProper(_, _)
RECURSIVE projectElements(_, _)
RECURSIVE projectLayout(_, _)

\* the part of a value that lies on the fields of a filtered layout
projectItem(item, v) ==
  CASE item.binary = "bytes" /\ item.layout.p # "none" /\ item.custom.c = "none" ->
         projectLayout(item.layout, v)
    [] item.binary = "array" ->
         IF v.k = "arr" THEN Arr(projectElements(item.layout, v.e)) ELSE v
    [] item.binary = "switch" ->
         LET id == Prop(v, IdTagOf(item))
             found == variantsFor(item, id)
         IN  IF found = {} THEN Obj(Field(IdTagOf(item), id))
             ELSE Obj(Merge(Field(IdTagOf(item), id),
                            projectProper(item.layouts[Lowest(found)][2], v)))
    [] OTHER -> v

projectProper(items, v) ==
  IF items = <<>> THEN [n \in {} |-> Undef]
  ELSE IF Head(items).name = "" \/ Head(items).name \notin DOMAIN v.f
  THEN projectProper(Tail(items), v)
  ELSE Merge(Field(Head(items).name,
                   projectItem(Head(items), v.f[Head(items).name])),
             projectProper(Tail(items), v))

projectElements(layout, elements) ==
  IF elements = <<>> THEN <<>>
  ELSE <<projectLayout(layout, Head(elements))>>
       \o projectElements(layout, Tail(elements))

projectLayout(layout, v) ==
  CASE layout.p = "null" -> Undef
    [] layout.p = "item" -> projectItem(layout.i, v)
    [] layout.p = "proper" ->
         IF v.k = "obj" THEN Obj(projectProper(layout.items, v)) ELSE v

\* ------------------------------------------------------------ the machine

VARIABLES layout, value, valid, pc, encoded, size, staticSize, wire, decoded,
          fixedItems, dynamicItems, dynamicValue, merged,
          order, reordered, applied, forward, back

\* the fork of a validator: the instance's fields, the snapshots the program
\* holds with what each held when save returned it, the operations awaiting
\* upstream, and what the last step did
VARIABLES settings, rpc, special, known, liteAccounts, liteClock,
          snapshots, saved, pending, lastOp, lastRequest, nOps

\* the Rational an expression holds, and the operation that made it
VARIABLES receiver, made

\* a value on its way through JSON text and back: the call under way, the
\* text written, the value read, the plain object between serializeBigints
\* and deserializeBigints, and the round trips made
VARIABLES jsonIn, jsonText, jsonOut, serialized, cycles

forkSvm == <<settings, rpc, special, known, liteAccounts, liteClock,
             snapshots, saved, pending, lastOp, lastRequest, nOps>>
rationals == <<receiver, made>>
bigints == <<jsonIn, jsonText, jsonOut, serialized, cycles>>

\* the state of the other packages
packages == <<forkSvm, rationals, bigints>>

\* what the layout manipulations write: the result of setEndianness; the
\* conversion of a combinator or of an item helper, what its to returned and
\* what its from made of that
manipulation == <<order, reordered, applied, forward, back>>

layouting == <<layout, value, valid, pc, encoded, size, staticSize, wire, decoded,
               fixedItems, dynamicItems, dynamicValue, merged, manipulation>>

vars == <<layouting, packages>>

NotRun == [k |-> "none"]

\* a package nothing runs on
ForkSvmIdle ==
  /\ settings = NotRun /\ rpc = NotRun /\ special = {} /\ known = <<>>
  /\ liteAccounts = NotRun /\ liteClock = NotRun
  /\ snapshots = <<>> /\ saved = <<>> /\ pending = <<>>
  /\ lastOp = NotRun /\ lastRequest = NotRun /\ nOps = 0

RationalIdle == receiver = NotRun /\ made = NotRun

BigintsIdle ==
  /\ jsonIn = NotRun /\ jsonText = <<>> /\ jsonOut = NotRun
  /\ serialized = NotRun /\ cycles = 0

Init ==
  /\ layout \in Layouts
  /\ valid \in BOOLEAN
  /\ value \in (IF valid THEN ValidValues(layout) ELSE InvalidValues(layout))
  /\ pc = "serialize"
  /\ encoded = NotRun
  /\ size = NotRun
  /\ staticSize = NotRun
  /\ wire = <<>>
  /\ decoded = NotRun
  /\ fixedItems = NotRun
  /\ dynamicItems = NotRun
  /\ dynamicValue = NotRun
  /\ merged = NotRun
  /\ order = "unset"
  /\ reordered = NotRun
  /\ applied = NotRun
  /\ forward = NotRun
  /\ back = NotRun
  /\ ForkSvmIdle /\ RationalIdle /\ BigintsIdle

Serialize ==
  /\ pc = "serialize"
  /\ encoded' = serialize(layout, value)
  /\ pc' = "calcSize"
  /\ UNCHANGED <<layout, value, valid, size, staticSize, wire, decoded,
                 fixedItems, dynamicItems, dynamicValue, merged,
                 manipulation, packages>>

CalcSize ==
  /\ pc = "calcSize"
  /\ size' = calcSize(layout, value)
  /\ pc' = IF valid THEN "calcStaticSize" ELSE "done"
  /\ UNCHANGED <<layout, value, valid, encoded, staticSize, wire, decoded,
                 fixedItems, dynamicItems, dynamicValue, merged,
                 manipulation, packages>>

CalcStaticSize ==
  /\ pc = "calcStaticSize"
  /\ staticSize' = calcStaticSize(layout)
  /\ pc' = "deserialize"
  /\ UNCHANGED <<layout, value, valid, encoded, size, wire, decoded,
                 fixedItems, dynamicItems, dynamicValue, merged,
                 manipulation, packages>>

\* the bytes handed to deserialize: the encoding, the encoding cut short, or
\* the encoding with one byte replaced
Prefixes(b) == { Take(b, n) : n \in 0..(Len(b) - 1) }
Tampered(b) ==
  { [b EXCEPT ![i] = x] : i \in 1..Len(b), x \in {0, 9, 255} } \ {b}
WireInputs ==
  IF IsErr(encoded) THEN {<<>>}
  ELSE {encoded.b} \union Prefixes(encoded.b) \union Tampered(encoded.b)

Deserialize ==
  /\ pc = "deserialize"
  /\ \E b \in WireInputs :
       /\ wire' = b
       /\ decoded' = deserialize(layout, b)
       /\ pc' = IF ~IsErr(encoded) /\ b = encoded.b THEN "fixedItemsOf" ELSE "done"
  /\ UNCHANGED <<layout, value, valid, encoded, size, staticSize,
                 fixedItems, dynamicItems, dynamicValue, merged,
                 manipulation, packages>>

FixedItemsOf ==
  /\ pc = "fixedItemsOf"
  /\ fixedItems' = fixedItemsOf(layout)
  /\ pc' = "dynamicItemsOf"
  /\ UNCHANGED <<layout, value, valid, encoded, size, staticSize, wire, decoded,
                 dynamicItems, dynamicValue, merged,
                 manipulation, packages>>

DynamicItemsOf ==
  /\ pc = "dynamicItemsOf"
  /\ dynamicItems' = dynamicItemsOf(layout)
  /\ pc' = "addFixedValues"
  /\ UNCHANGED <<layout, value, valid, encoded, size, staticSize, wire, decoded,
                 fixedItems, dynamicValue, merged,
                 manipulation, packages>>

\* the caller keeps the fields of the dynamic layout and has the rest added
AddFixedValues ==
  /\ pc = "addFixedValues"
  /\ dynamicValue' = projectLayout(dynamicItems, value)
  /\ merged' = addFixedValues(layout, dynamicValue')
  /\ pc' = "done"
  /\ UNCHANGED <<layout, value, valid, encoded, size, staticSize, wire, decoded,
                 fixedItems, dynamicItems,
                 manipulation, packages>>

\* setEndianness(layout, endianness) on a layout nothing else has run on
\* setEndianness writing the orders into the layout it was given
SetEndianness_inPlace ==
  /\ pc = "serialize"
  /\ \E e \in {"big", "little"} :
       /\ order' = e
       /\ layout' = setEndianness(layout, e)
       /\ reordered' = layout'
  /\ pc' = "done"
  /\ UNCHANGED <<value, valid, encoded, size, staticSize, wire, decoded,
                 fixedItems, dynamicItems, dynamicValue, merged,
                 applied, forward, back, packages>>

SetEndianness ==
  /\ pc = "serialize"
  /\ \E e \in {"big", "little"} :
       /\ order' = e
       /\ reordered' = setEndianness(layout, e)
  /\ pc' = "done"
  /\ UNCHANGED <<layout, value, valid, encoded, size, staticSize, wire, decoded,
                 fixedItems, dynamicItems, dynamicValue, merged,
                 applied, forward, back, packages>>

\* the fields of a decoded record that are records themselves
NestedObjectNames(v) == { n \in DOMAIN v.f : v.f[n].k = "obj" }

\* spread(layout, name) of a record layout: the wrapping item converts a
\* decoded record and then converts it back
Spread ==
  /\ pc = "serialize" /\ valid /\ layout.p = "proper"
  /\ \E name \in NestedObjectNames(value) :
       /\ applied' = spread(layout.items, name).custom
       /\ forward' = spreadTo(applied', value)
       /\ back' = spreadFrom(applied', forward'.b)
  /\ pc' = "done"
  /\ UNCHANGED <<layout, value, valid, encoded, size, staticSize, wire, decoded,
                 fixedItems, dynamicItems, dynamicValue, merged,
                 order, reordered, packages>>

\* layouts of which exactly one item is not omitted
Singleton(items) == Cardinality({ i \in 1..Len(items) : ~IsOmitted(items[i]) }) = 1

\* unwrapSingleton(layout): the wrapping item converts a decoded record and
\* then converts it back
UnwrapSingleton ==
  /\ pc = "serialize" /\ valid /\ layout.p = "proper" /\ Singleton(layout.items)
  /\ applied' = unwrapSingleton(layout.items).custom
  /\ forward' = unwrapTo(applied', value)
  /\ back' = unwrapFrom(applied', forward'.b)
  /\ pc' = "done"
  /\ UNCHANGED <<layout, value, valid, encoded, size, staticSize, wire, decoded,
                 fixedItems, dynamicItems, dynamicValue, merged,
                 order, reordered, packages>>

Next ==
  \/ Serialize
  \/ CalcSize
  \/ CalcStaticSize
  \/ Deserialize
  \/ FixedItemsOf
  \/ DynamicItemsOf
  \/ AddFixedValues
  \/ SetEndianness
  \/ Spread
  \/ UnwrapSingleton

Spec == Init /\ [][Next]_vars

\* ------------------------------------------ conversions of the item helpers

\* the items the helpers make: the two flag lists are one with an unnamed
\* bit below a named one and the list of the setEndianness tests
FlagNames == <<"zero", "one", "", "three">>
BitsetNames == <<"zero", "one", "two", "", "", "", "", "seven", "eight">>

HelperItems ==
  { boolItem(FALSE), boolItem(TRUE), enumItem(<< <<"a", 1>>, <<"b", 2>> >>, 2),
    optionItem(ItemLayout(U8)), bitsetItem(FlagNames), bitsetItem(BitsetNames),
    timestampItem("uint", 4), timestampItem("int", 4), timestampItem("uint", 8) }

SizeOf(item) == IF IsNum(item) THEN item.size ELSE 0

\* raw values handed to custom.to
RawInputs(item) ==
  CASE item.custom.fn \in {"bool", "boolPermissive"} ->
         { Num(n, 1) : n \in {0, 1, 2, 255} }
    [] item.custom.fn = "enum" -> { Num(n, 2) : n \in {0, 1, 2, 3, 258} }
    [] item.custom.fn = "option" ->
         { optionFrom(Undef), optionFrom(Num(0, 1)), optionFrom(Num(7, 1)) }
    [] item.custom.fn = "bitset" ->
         IF item.size = 1 THEN { Num(n, 1) : n \in 0..15 }
         ELSE { Num(n, 2) : n \in {0, 1, 5, 8, 13, 128, 133, 256, 389, 511} }
    [] item.custom.fn \in {"numberTimestamp", "bigintTimestamp"} ->
         { Num(n, item.size) : n \in (IF item.binary = "int" THEN {-60, -1} ELSE {})
                                      \union {0, 1, 60, 86400} }

\* decoded values handed to custom.from
DomainInputs(item) ==
  CASE item.custom.fn \in {"bool", "boolPermissive"} -> { Bool(TRUE), Bool(FALSE) }
    [] item.custom.fn = "enum" -> { Str("a"), Str("b") }
    [] item.custom.fn = "option" -> { Undef, Num(0, 1), Num(7, 1) }
    [] item.custom.fn = "bitset" ->
         { Obj(f) : f \in [ { item.custom.bitnames[i] : i \in 1..Len(item.custom.bitnames) }
                            \ {""} -> { Bool(TRUE), Bool(FALSE) } ] }
    [] item.custom.fn \in {"numberTimestamp", "bigintTimestamp"} ->
         { Date(ms) : ms \in (IF item.binary = "int" THEN {-60000, -1500, -1} ELSE {})
                              \union {0, 1, 999, 1000, 1500, 60000} }

ConversionsInit ==
  /\ layout \in { ItemLayout(i) : i \in HelperItems }
  /\ valid = TRUE
  /\ pc \in {"to", "from"}
  /\ value \in (IF pc = "to" THEN RawInputs(layout.i) ELSE DomainInputs(layout.i))
  /\ encoded = NotRun
  /\ size = NotRun
  /\ staticSize = NotRun
  /\ wire = <<>>
  /\ decoded = NotRun
  /\ fixedItems = NotRun
  /\ dynamicItems = NotRun
  /\ dynamicValue = NotRun
  /\ merged = NotRun
  /\ order = "unset"
  /\ reordered = NotRun
  /\ applied = NotRun
  /\ forward = NotRun
  /\ back = NotRun
  /\ ForkSvmIdle /\ RationalIdle /\ BigintsIdle

\* custom.from(custom.to(raw)), when to returns
ToThenFrom ==
  /\ pc = "to"
  /\ applied' = [fn |-> "to"]
  /\ forward' = ConvTo(layout.i.custom, SizeOf(layout.i), value)
  /\ back' = IF IsErr(forward') THEN NotRun
             ELSE ConvFrom(layout.i.custom, SizeOf(layout.i), forward')
  /\ pc' = "done"
  /\ UNCHANGED <<layout, value, valid, encoded, size, staticSize, wire, decoded,
                 fixedItems, dynamicItems, dynamicValue, merged,
                 order, reordered, packages>>

\* custom.to(custom.from(domain)), when from returns
FromThenTo ==
  /\ pc = "from"
  /\ applied' = [fn |-> "from"]
  /\ forward' = ConvFrom(layout.i.custom, SizeOf(layout.i), value)
  /\ back' = IF IsErr(forward') THEN NotRun
             ELSE ConvTo(layout.i.custom, SizeOf(layout.i), forward')
  /\ pc' = "done"
  /\ UNCHANGED <<layout, value, valid, encoded, size, staticSize, wire, decoded,
                 fixedItems, dynamicItems, dynamicValue, merged,
                 order, reordered, packages>>

ConversionsNext ==
  \/ ToThenFrom
  \/ FromThenTo

SpecConversions == ConversionsInit /\ [][ConversionsNext]_vars

\* ------------------------------------------------------------- fork-svm

lamportsPerByte == 6960
emptyAccountSize == 128

minimumBalanceForRentExemption(space) == (emptyAccountSize + space) * lamportsPerByte

\* an address that holds nothing, an argument or a client that is not given,
\* and a url that is not given
NoAccount == [k |-> "null"]
Undefined == [k |-> "undefined"]
NoUrl == "undefined"

\* a slot given as an argument
Slot(n) == [k |-> "bigint", n |-> n]

systemProgramId == "systemProgram"
bpfLoaderUpgradeableProgramId == "bpfLoaderUpgradeable"

\* an account; bytecode is the address its data names in bytes 4..36
SvmAccount(executable, owner, lamports, space, dataLength, bytecode) ==
  [executable |-> executable, owner |-> owner, lamports |-> lamports,
   space |-> space, dataLength |-> dataLength, bytecode |-> bytecode]

emptyAccountInfo == SvmAccount(FALSE, systemProgramId, 0, 0, 0, "none")

\* the addresses in use: a wallet, an upgradeable program and its
\* program-data account, and one address of each special set
builtInSet == {systemProgramId}
sysvarSet == {"clockSysvar"}
defProgSet == {"tokenProgram"}
Addresses == {"payer", "program", "programData"} \union builtInSet \union sysvarSet
               \union defProgSet

\* the cluster behind the url
Upstream(address) ==
  CASE address = "payer" -> SvmAccount(FALSE, systemProgramId, 1000000, 0, 0, "none")
    [] address = "program" ->
         SvmAccount(TRUE, bpfLoaderUpgradeableProgramId,
                    minimumBalanceForRentExemption(36), 36, 36, "programData")
    [] address = "programData" ->
         SvmAccount(FALSE, bpfLoaderUpgradeableProgramId,
                    minimumBalanceForRentExemption(45), 45, 45, "none")
    [] address = "clockSysvar" ->
         SvmAccount(FALSE, "sysvarOwner", minimumBalanceForRentExemption(40), 40, 40, "none")
    [] OTHER -> NoAccount

SettingsOf(url, withDefaultPrograms, withSysvars, withBuiltins) ==
  [url |-> url, withDefaultPrograms |-> withDefaultPrograms,
   withSysvars |-> withSysvars, withBuiltins |-> withBuiltins]

settingNames == <<"url", "withDefaultPrograms", "withSysvars", "withBuiltins">>

\* the special addresses the constructor collects
specialOf(s) ==
  (IF s.withBuiltins THEN builtInSet ELSE {})
    \union (IF s.withSysvars THEN sysvarSet ELSE {})
    \union (IF s.withDefaultPrograms THEN defProgSet ELSE {})

createSolanaRpc(url) == IF url = NoUrl THEN Undefined ELSE [url |-> url]

\* what LiteSVM holds once the constructor has enabled the sets
liteSvmOf(s) ==
  [a \in Addresses |->
     IF a \in specialOf(s)
       THEN SvmAccount(a \in builtInSet \union defProgSet, "nativeLoader",
                       minimumBalanceForRentExemption(0), 0, 0, "none")
       ELSE emptyAccountInfo]

\* liteSvm.getAccount: an account without lamports does not exist
liteGetAccount(accounts, address) ==
  IF accounts[address].lamports = 0 THEN NoAccount ELSE accounts[address]

\* liteSvm.airdrop
liteAirdrop(accounts, address, lamports) ==
  [accounts EXCEPT ![address].lamports = @ + lamports]

Elements(s) == { s[i] : i \in 1..Len(s) }

\* Set.add on a set that keeps the order of insertion
SetAdd(s, e) == IF e \in Elements(s) THEN s ELSE Append(s, e)

\* isUnfetched looking at the special addresses only
isUnfetched_specialOnly(address) == address \notin special

isUnfetched(address) == address \notin special /\ address \notin Elements(known)

\* what setAccount makes of the account object it is handed
rentExempt(acc) ==
  IF acc = NoAccount THEN NoAccount
  ELSE LET space == IF acc.space < acc.dataLength THEN acc.dataLength ELSE acc.space
           floor == minimumBalanceForRentExemption(space)
       IN  [acc EXCEPT !.space = space,
                       !.lamports = IF acc.lamports < floor THEN floor ELSE acc.lamports]

\* setAccount on the known addresses and the accounts of LiteSVM
setAccount(fork, address, acc) ==
  [known |-> SetAdd(fork.known, address),
   accounts |-> [fork.accounts EXCEPT ![address] =
                   IF acc = NoAccount THEN emptyAccountInfo ELSE rentExempt(acc)]]

\* setAccount for each entry of a list, in its order
RECURSIVE setAccounts(_, _)
setAccounts(fork, entries) ==
  IF entries = <<>> THEN fork
  ELSE setAccounts(setAccount(fork, Head(entries).address, Head(entries).account),
                   Tail(entries))

Entry(address, account) == [address |-> address, account |-> account]

\* fetchFromUpstream: without an rpc client every address holds nothing
fetchFromUpstream(client, addresses) ==
  [i \in 1..Len(addresses) |->
     IF client = Undefined THEN NoAccount ELSE Upstream(addresses[i])]

\* whether fetchFromUpstream sends a request
contactsUpstream(client, addresses) == client # Undefined /\ Len(addresses) > 0

IsUpgradeable(acc) ==
  acc # NoAccount /\ acc.executable /\ acc.owner = bpfLoaderUpgradeableProgramId

latestTimestampOf(clock) == Date(clock.unixTimestamp * 1000)

\* the instance as one value: what load and the constructor work on
Instance(s, client, spec, knownAddresses, accounts, clock) ==
  [settings |-> s, rpc |-> client, special |-> spec, known |-> knownAddresses,
   accounts |-> accounts, clock |-> clock]

ThisInstance == Instance(settings, rpc, special, known, liteAccounts, liteClock)

\* new ForkSvm(settings): the settings are copied into an object of its own
constructed(s) ==
  Instance(SettingsOf(s.url, s.withDefaultPrograms, s.withSysvars, s.withBuiltins),
           createSolanaRpc(s.url), specialOf(s), <<>>, liteSvmOf(s),
           [unixTimestamp |-> 0, slot |-> 0])

\* setRpc(url)
setRpc(inst, url) ==
  [inst EXCEPT !.settings.url = url, !.rpc = createSolanaRpc(url)]

\* the loop of load over the names of the settings: a url that differs is
\* taken over, any other setting that differs throws
RECURSIVE loadSettings(_, _, _)
loadSettings(names, inst, snapshotSettings) ==
  IF names = <<>> THEN [threw |-> FALSE, inst |-> inst]
  ELSE IF snapshotSettings[Head(names)] # inst.settings[Head(names)]
    THEN IF Head(names) = "url"
           THEN loadSettings(Tail(names), setRpc(inst, snapshotSettings.url),
                             snapshotSettings)
           ELSE [threw |-> TRUE, inst |-> inst]
    ELSE loadSettings(Tail(names), inst, snapshotSettings)

IsExecutable(entry) == entry.account # NoAccount /\ entry.account.executable
IsNotExecutable(entry) == ~IsExecutable(entry)

\* load handing the entries to setAccount in the order of the snapshot
loadOrder_asSaved(entries) == entries

\* the order in which load hands the entries of a snapshot to setAccount
loadOrder(entries) ==
  SelectSeq(entries, IsNotExecutable) \o SelectSeq(entries, IsExecutable)

\* load(snapshot) once the settings agree
loadAccounts(inst, entries, clock) ==
  LET keys == { entries[i].address : i \in 1..Len(entries) }
      cleared == [a \in Addresses |->
                    IF a \in Elements(inst.known) \intersect keys
                      THEN emptyAccountInfo ELSE inst.accounts[a]]
      fork == setAccounts([known |-> <<>>, accounts |-> cleared], loadOrder(entries))
  IN  [inst EXCEPT !.known = fork.known,
                   !.accounts = fork.accounts,
                   !.clock = [unixTimestamp |-> clock.timestamp.ms \div 1000,
                              slot |-> clock.slot]]

\* load(snapshot)
load(inst, snapshotSettings, entries, clock) ==
  LET checked == loadSettings(settingNames, inst, snapshotSettings)
  IN  IF checked.threw THEN checked
      ELSE [threw |-> FALSE, inst |-> loadAccounts(checked.inst, entries, clock)]

\* the settings a snapshot names: save hands out the object of the instance
settingsIn(snapshot) ==
  IF snapshot.byReference THEN settings ELSE snapshot.settings

\* what a snapshot holds
Contents(snapshot) ==
  [settings |-> settingsIn(snapshot), accounts |-> snapshot.accounts,
   clock |-> snapshot.clock]

\* the snapshots once the instance they came from is let go: its settings
\* object stays as it is
Detached(held) ==
  [i \in 1..Len(held) |->
     IF held[i].byReference
       THEN [held[i] EXCEPT !.byReference = FALSE, !.settings = settings]
       ELSE held[i]]

\* the snapshot whose accounts load has handed to setAccount
HandedOver(held, k) ==
  [held EXCEPT ![k].accounts =
     [i \in 1..Len(@) |-> Entry(@[i].address, rentExempt(@[i].account))]]

MaxOps == 5
MaxSnapshots == 1
MaxPending == 2

Budget == nOps < MaxOps /\ nOps' = nOps + 1

SetInstance(inst) ==
  /\ settings' = inst.settings
  /\ rpc' = inst.rpc
  /\ special' = inst.special
  /\ known' = inst.known
  /\ liteAccounts' = inst.accounts
  /\ liteClock' = inst.clock

instanceVars == <<settings, rpc, special, known, liteAccounts, liteClock>>

SettingsInputs ==
  { SettingsOf(u, TRUE, sv, TRUE) : u \in {NoUrl, "mainnet"}, sv \in BOOLEAN }

LayoutingIdle ==
  /\ layout = NullLayout /\ value = Undef /\ valid = TRUE /\ pc = "done"
  /\ encoded = NotRun /\ size = NotRun /\ staticSize = NotRun /\ wire = <<>>
  /\ decoded = NotRun /\ fixedItems = NotRun /\ dynamicItems = NotRun
  /\ dynamicValue = NotRun /\ merged = NotRun /\ order = "unset"
  /\ reordered = NotRun /\ applied = NotRun /\ forward = NotRun /\ back = NotRun

NoRequest == [flip |-> 0, addresses |-> {}]

ForkSvmInit ==
  /\ \E s \in SettingsInputs : 
       /\ settings = constructed(s).settings
       /\ rpc = constructed(s).rpc
       /\ special = constructed(s).special
       /\ liteAccounts = constructed(s).accounts
       /\ liteClock = constructed(s).clock
  /\ known = <<>>
  /\ snapshots = <<>> /\ saved = <<>> /\ pending = <<>>
  /\ lastOp = [op |-> "new"] /\ lastRequest = NoRequest /\ nOps = 0
  /\ LayoutingIdle /\ RationalIdle /\ BigintsIdle

others == <<layouting, rationals, bigints>>

\* new ForkSvm(settings) in place of the instance
New ==
  /\ Budget /\ pending = <<>>
  /\ \E s \in SettingsInputs : SetInstance(constructed(s))
  /\ snapshots' = Detached(snapshots)
  /\ lastOp' = [op |-> "new"]
  /\ UNCHANGED <<saved, pending, lastRequest, others>>

\* save()
Save ==
  /\ Budget /\ Len(snapshots) < MaxSnapshots
  /\ snapshots' = Append(snapshots,
       [byReference |-> TRUE, settings |-> settings,
        accounts |-> [i \in 1..Len(known) |->
                        Entry(known[i], liteGetAccount(liteAccounts, known[i]))],
        clock |-> [timestamp |-> latestTimestampOf(liteClock),
                   slot |-> liteClock.slot]])
  /\ saved' = Append(saved, Contents(snapshots'[Len(snapshots')]))
  /\ lastOp' = [op |-> "save"]
  /\ UNCHANGED <<instanceVars, pending, lastRequest, others>>

\* load(snapshot)
Load ==
  /\ Budget
  /\ \E k \in 1..Len(snapshots) :
       LET snapshot == snapshots[k]
           outcome == load(ThisInstance, settingsIn(snapshot), snapshot.accounts,
                           snapshot.clock)
       IN  /\ SetInstance(outcome.inst)
           /\ snapshots' = IF outcome.threw THEN snapshots ELSE HandedOver(snapshots, k)
           /\ lastOp' = [op |-> "load", snapshot |-> k, threw |-> outcome.threw,
                         before |-> ThisInstance,
                         knownBefore |-> Elements(known),
                         installed |-> IF outcome.threw THEN <<>>
                                       ELSE loadOrder(snapshot.accounts)]
  /\ UNCHANGED <<saved, pending, lastRequest, others>>

\* ForkSvm.load(snapshot): a new instance from the settings of the snapshot,
\* the snapshot loaded into it, in place of the instance
StaticLoad ==
  /\ Budget /\ pending = <<>>
  /\ \E k \in 1..Len(snapshots) :
       LET snapshot == snapshots[k]
           fresh == constructed(settingsIn(snapshot))
           outcome == load(fresh, settingsIn(snapshot), snapshot.accounts,
                           snapshot.clock)
       IN  /\ SetInstance(outcome.inst)
           /\ snapshots' = HandedOver(Detached(snapshots), k)
           /\ lastOp' = [op |-> "ForkSvm.load", snapshot |-> k,
                         threw |-> outcome.threw,
                         knownBefore |-> {},
                         installed |-> loadOrder(snapshot.accounts)]
  /\ UNCHANGED <<saved, pending, lastRequest, others>>

\* setRpc(url)
SetRpc ==
  /\ Budget
  /\ \E url \in {NoUrl, "mainnet"} :
       /\ url # settings.url
       /\ SetInstance(setRpc(ThisInstance, url))
       /\ lastOp' = [op |-> "setRpc", url |-> url]
  /\ UNCHANGED <<snapshots, saved, pending, lastRequest, others>>

\* BigInt(timestamp.getTime() / 1000) of a Date that is not on a second
NotOnSecond(timestamp) == timestamp # Undefined /\ timestamp.ms % 1000 # 0

\* setClock rounding the timestamp down to its second
setClock_truncating(clock, timestamp, slot) ==
  [slot |-> IF slot = Undefined THEN clock.slot ELSE slot.n,
   unixTimestamp |-> IF timestamp = Undefined THEN clock.unixTimestamp
                     ELSE timestamp.ms \div 1000]

\* the clock setClock(timestamp, slot) hands to LiteSVM, unless BigInt throws
setClock(clock, timestamp, slot) ==
  IF NotOnSecond(timestamp) THEN Err("RangeError")
  ELSE [slot |-> IF slot = Undefined THEN clock.slot ELSE slot.n,
        unixTimestamp |-> IF timestamp = Undefined THEN clock.unixTimestamp
                          ELSE timestamp.ms \div 1000]

\* setClock(timestamp, slot)
SetClock ==
  /\ Budget
  /\ \E timestamp \in {Undefined, Date(60000), Date(1500)}, slot \in {Undefined, Slot(100)} :
       LET outcome == setClock(liteClock, timestamp, slot)
       IN  /\ liteClock' = IF outcome = Err("RangeError") THEN liteClock ELSE outcome
           /\ lastOp' = [op |-> "setClock", timestamp |-> timestamp, slot |-> slot,
                         threw |-> outcome = Err("RangeError"), before |-> liteClock]
  /\ UNCHANGED <<settings, rpc, special, known, liteAccounts,
                 snapshots, saved, pending, lastRequest, others>>

AccountInputs ==
  { SvmAccount(FALSE, systemProgramId, 5000, 0, 0, "none"),
    SvmAccount(FALSE, "tokenProgram", 0, 0, 2, "none") }

\* setAccount(address, acc) by the program
SetAccount ==
  /\ Budget
  /\ \E address \in {"payer"}, acc \in AccountInputs :
       LET fork == setAccount([known |-> known, accounts |-> liteAccounts], address, acc)
       IN  /\ known' = fork.known
           /\ liteAccounts' = fork.accounts
           /\ lastOp' = [op |-> "setAccount", address |-> address,
                         account |-> rentExempt(acc)]
  /\ UNCHANGED <<settings, rpc, special, liteClock,
                 snapshots, saved, pending, lastRequest, others>>

\* addProgram(programId, programBytes)
AddProgram ==
  /\ Budget
  /\ \E programId \in {"program"} :
       /\ known' = SetAdd(known, programId)
       /\ liteAccounts' = [liteAccounts EXCEPT ![programId] =
            SvmAccount(TRUE, "bpfLoader", minimumBalanceForRentExemption(8), 8, 8, "none")]
       /\ lastOp' = [op |-> "addProgram", address |-> programId]
  /\ UNCHANGED <<settings, rpc, special, liteClock,
                 snapshots, saved, pending, lastRequest, others>>

\* the request fetchFromUpstream sends, when it sends one
Requested(client, addresses) ==
  IF contactsUpstream(client, addresses)
    THEN [flip |-> 1 - lastRequest.flip, addresses |-> Elements(addresses)]
    ELSE lastRequest

RemoveAt(s, i) == SubSeq(s, 1, i - 1) \o SubSeq(s, i + 1, Len(s))

Zip(accounts, addresses) ==
  [i \in 1..Len(addresses) |-> Entry(addresses[i], accounts[i])]

\* the fetched programs whose program-data account is still to be fetched
NeedsBytecode(entry) ==
  IsUpgradeable(entry.account) /\ isUnfetched(entry.account.bytecode)

IsMissing(entry) == entry.account = NoAccount

\* the accounts an install overwrites although they were set after the
\* fetch of the operation began
Overwritten(entries, fork) ==
  { a \in Elements(known) :
      /\ \E i \in 1..Len(entries) : entries[i].address = a
      /\ fork.accounts[a] # liteAccounts[a] }

\* what follows the await of fetchUnfetched in each operation
Completes(operation, entries) ==
  LET fork == setAccounts([known |-> known, accounts |-> liteAccounts], entries)
  IN  /\ known' = fork.known
      /\ liteAccounts' = IF operation.op = "airdrop"
                           THEN liteAirdrop(fork.accounts, operation.addresses[1],
                                            operation.lamports)
                           ELSE fork.accounts
      /\ lastOp' = [op |-> operation.op, addresses |-> operation.addresses,
                    threw |-> FALSE, awaited |-> entries # <<>>,
                    knownBefore |-> Elements(known),
                    installed |-> entries,
                    overwritten |-> Overwritten(entries, fork),
                    returned |-> [i \in 1..Len(operation.addresses) |->
                                    liteGetAccount(liteAccounts', operation.addresses[i])]]

\* fetchUnfetched up to its first await: the operation either has nothing to
\* fetch and completes, or waits for upstream
Begins(operation) ==
  LET unfetched == SelectSeq(operation.addresses, isUnfetched)
  IN  IF unfetched = <<>>
        THEN /\ Completes(operation, <<>>)
             /\ UNCHANGED <<pending, lastRequest>>
        ELSE /\ Len(pending) < MaxPending
             /\ pending' = Append(pending,
                  [operation EXCEPT !.stage = "accounts",
                                    !.fetched = Zip(fetchFromUpstream(rpc, unfetched),
                                                    unfetched)])
             /\ lastRequest' = Requested(rpc, unfetched)
             /\ lastOp' = [op |-> "fetchFromUpstream", addresses |-> unfetched]
             /\ UNCHANGED <<known, liteAccounts>>

Operation(op, addresses, lamports) ==
  [op |-> op, addresses |-> addresses, lamports |-> lamports,
   stage |-> "none", fetched |-> <<>>, bytecode |-> <<>>]

\* getAccount(addressEs)
GetAccount ==
  /\ Budget
  /\ \E addresses \in {<<"payer">>, <<"program">>, <<"clockSysvar", "payer">>} :
       Begins(Operation("getAccount", addresses, 0))
  /\ UNCHANGED <<settings, rpc, special, liteClock, snapshots, saved, others>>

\* airdrop(address, lamports)
Airdrop ==
  /\ Budget
  /\ \E address \in {"payer"}, lamports \in {5000} :
       Begins(Operation("airdrop", <<address>>, lamports))
  /\ UNCHANGED <<settings, rpc, special, liteClock, snapshots, saved, others>>

\* sendTransaction(tx) of a transaction without lookup tables, up to the
\* call into LiteSVM
SendTransaction ==
  /\ Budget
  /\ \E staticAccounts \in {<<"program", "payer">>} :
       Begins(Operation("sendTransaction", staticAccounts, 0))
  /\ UNCHANGED <<settings, rpc, special, liteClock, snapshots, saved, others>>

\* simulateTransaction(tx) of a transaction without lookup tables
SimulateTransaction ==
  /\ Budget
  /\ \E staticAccounts \in {<<"payer", "programData">>} :
       Begins(Operation("simulateTransaction", staticAccounts, 0))
  /\ UNCHANGED <<settings, rpc, special, liteClock, snapshots, saved, others>>

\* fetchUnfetched after its first await: the program-data accounts are
\* asked for, or the fetched accounts are installed
FetchedAccounts ==
  /\ Budget
  /\ \E i \in 1..Len(pending) :
       LET operation == pending[i]
           upgradable == SelectSeq(operation.fetched, NeedsBytecode)
           bytecodeAddrs == [j \in 1..Len(upgradable) |-> upgradable[j].account.bytecode]
       IN  /\ operation.stage = "accounts"
           /\ IF upgradable # <<>>
                THEN /\ pending' = [pending EXCEPT
                          ![i].stage = "bytecode",
                          ![i].bytecode = Zip(fetchFromUpstream(rpc, bytecodeAddrs),
                                              bytecodeAddrs)]
                     /\ lastRequest' = Requested(rpc, bytecodeAddrs)
                     /\ lastOp' = [op |-> "fetchFromUpstream", addresses |-> bytecodeAddrs]
                     /\ UNCHANGED <<known, liteAccounts>>
                ELSE /\ pending' = RemoveAt(pending, i)
                     /\ Completes(operation, operation.fetched)
                     /\ UNCHANGED lastRequest
  /\ UNCHANGED <<settings, rpc, special, liteClock, snapshots, saved, others>>

\* fetchUnfetched after its second await: a program without its bytecode
\* throws, otherwise the bytecode is installed before the fetched accounts
FetchedBytecode ==
  /\ Budget
  /\ \E i \in 1..Len(pending) :
       LET operation == pending[i]
       IN  /\ operation.stage = "bytecode"
           /\ pending' = RemoveAt(pending, i)
           /\ IF SelectSeq(operation.bytecode, IsMissing) # <<>>
                THEN /\ lastOp' = [op |-> operation.op, addresses |-> operation.addresses,
                                   threw |-> TRUE, awaited |-> TRUE,
                                   knownBefore |-> Elements(known),
                                   installed |-> <<>>, overwritten |-> {},
                                   returned |-> <<>>]
                     /\ UNCHANGED <<known, liteAccounts>>
                ELSE Completes(operation, operation.bytecode \o operation.fetched)
  /\ UNCHANGED <<settings, rpc, special, liteClock, snapshots, saved, lastRequest,
                 others>>

ForkSvmNext ==
  \/ New
  \/ Save
  \/ Load
  \/ StaticLoad
  \/ SetRpc
  \/ SetClock
  \/ SetAccount
  \/ AddProgram
  \/ GetAccount
  \/ Airdrop
  \/ SendTransaction
  \/ SimulateTransaction
  \/ FetchedAccounts
  \/ FetchedBytecode

SpecForkSvm == ForkSvmInit /\ [][ForkSvmNext]_vars

\* ------------------------------------------------------------------ claims

Deserialized == decoded # NotRun
Untouched == ~IsErr(encoded) /\ wire = encoded.b

\* C1: deserialize(L, serialize(L, V)) is V for every value V valid for L;
\* the fields of omitted items are in neither of the two
C1_RoundTrip ==
  /\ (valid /\ encoded # NotRun) => ~IsErr(encoded)
  /\ (valid /\ Deserialized /\ Untouched) =>
       (~IsErr(decoded) /\ decoded.val = value /\ decoded.rest = <<>>)

\* a record with an omitted constant and a nested switch has been decoded
C1_Witness ==
  /\ valid /\ Deserialized /\ Untouched
  /\ layout = ProperLayout(<< Named("pad", Padding), Named("n", I8),
                              Named("sw", PlainSwitch) >>)
  /\ Prop(Prop(value, "sw"), "id") = Num(2, 1)
  /\ decoded.val = value
  /\ "pad" \notin DOMAIN decoded.val.f

Serialized == encoded # NotRun
PlainNumeric == layout.p = "item" /\ IsNum(layout.i) /\ layout.i.custom.c = "none"

\* the range of a width read off the digits: a magnitude below 2^(8 size) has
\* at most size digits, one below 2^(8 size - 1) has a top digit below 128
FitsUnsigned(v, width) == ~v.neg /\ Len(v.mag) <= width
FitsSigned(v, width) ==
  \/ Len(v.mag) < width
  \/ /\ Len(v.mag) = width
     /\ \/ v.mag[width] < 128
        \/ /\ v.neg
           /\ v.mag[width] = 128
           /\ \A i \in 1..(width - 1) : v.mag[i] = 0

\* C2: serialize on a Numeric item of a width succeeds exactly when the raw
\* value lies in the range of that width and signedness, for the number
\* widths (1 to 6) and for the bigint widths alike
C2_RangeEnforced ==
  (Serialized /\ PlainNumeric) =>
    (~IsErr(encoded) <=>
       IF layout.i.binary = "int" THEN FitsSigned(value, layout.i.size)
       ELSE FitsUnsigned(value, layout.i.size))

\* 2^56 has been refused by an unsigned item of seven bytes
C2_Witness ==
  /\ Serialized /\ layout = ItemLayout(U56)
  /\ value.mag = <<0, 0, 0, 0, 0, 0, 0, 1>> /\ ~value.neg
  /\ IsErr(encoded)

\* the sum of two magnitudes, digit by digit
RECURSIVE AddMag(_, _, _)
AddMag(a, b, carry) ==
  IF a = <<>> /\ b = <<>> THEN (IF carry = 0 THEN <<>> ELSE <<carry>>)
  ELSE LET x == IF a = <<>> THEN 0 ELSE Head(a)
           y == IF b = <<>> THEN 0 ELSE Head(b)
           t == x + y + carry
       IN  <<t % 256>> \o AddMag(IF a = <<>> THEN a ELSE Tail(a),
                                 IF b = <<>> THEN b ELSE Tail(b), t \div 256)

\* the bytes written, least significant first
WrittenLE ==
  IF layout.i.endianness = "little" THEN encoded.b
  ELSE [i \in 1..Len(encoded.b) |-> encoded.b[Len(encoded.b) + 1 - i]]

\* C3: a Numeric item of width S encodes an integer of its range as exactly S
\* bytes, the most significant first when its order is big or unset, the least
\* significant first when it is little, and decodes them to the integer
C3_ByteOrder ==
  (Serialized /\ PlainNumeric /\ ~IsErr(encoded)) =>
    /\ Len(encoded.b) = layout.i.size
    /\ IF value.neg
       THEN AddMag(WrittenLE, value.mag, 0) = Zeros(layout.i.size) \o <<1>>
       ELSE Trim(WrittenLE) = value.mag
    /\ (Deserialized /\ Untouched) => (~IsErr(decoded) /\ decoded.val = value)

\* 1 has been written to two bytes by an item with no order of its own
C3_Witness ==
  /\ layout = ItemLayout(U16) /\ value = Num(1, 2)
  /\ encoded = Ok(<<0, 1>>)
  /\ Deserialized /\ Untouched /\ decoded.val = value

LengthPrefixedItem ==
  /\ layout.p = "item"
  /\ layout.i.binary \in {"bytes", "array"}
  /\ layout.i.len.m = "prefix"

\* an unsigned count on the bytes of a prefix
PrefixBytes(count, width, endianness) ==
  LET le == Digits(count) \o Zeros(width - Len(Digits(count)))
  IN  IF endianness = "little" THEN le
      ELSE [i \in 1..width |-> le[width + 1 - i]]

\* the content of the single length-prefixed item, without its prefix
RECURSIVE Concat(_)
Concat(ss) == IF ss = <<>> THEN <<>> ELSE Head(ss) \o Concat(Tail(ss))

ContentOf(item, v) ==
  IF item.binary = "array"
  THEN Concat([i \in 1..Len(v.e) |-> serialize(item.layout, v.e[i]).b])
  ELSE IF item.layout.p # "none" THEN serialize(item.layout, v).b
  ELSE IF item.custom.c = "fn" THEN utf8Encode(v.cp)
  ELSE v.b

\* C4: a length-prefixed Bytes or Array item is written as its prefix (the
\* byte count of a Bytes item, the element count of an Array item, unsigned,
\* in the width and order declared for it) and then its content, and the
\* prefix is no part of the decoded value
C4_LengthPrefix ==
  (Serialized /\ LengthPrefixedItem /\ valid) =>
    LET item == layout.i
        width == item.len.lengthSize
        content == ContentOf(item, value)
        count == IF item.binary = "array" THEN Len(value.e) ELSE Len(content)
    IN  /\ ~IsErr(encoded)
        /\ encoded.b = PrefixBytes(count, width, item.len.lengthEndianness) \o content
        /\ Len(encoded.b) = width + Len(content)
        /\ (Deserialized /\ Untouched) => (~IsErr(decoded) /\ decoded.val = value)

\* a text of two characters and three bytes has been written after a 3
C4_Witness ==
  /\ layout = ItemLayout(stringItem(1)) /\ value = Text(<<72, 233>>)
  /\ encoded = Ok(<<3, 72, 195, 169>>)
  /\ Deserialized /\ Untouched /\ decoded.val = value

SwitchLayout == layout.p = "item" /\ layout.i.binary = "switch"

\* the identifier a variant is written with, and the one it is known by
IdBytesOf(item, i) == PrefixBytes(item.layouts[i][1].n, item.idSize, item.idEndianness)
IdValueOf(item, i) ==
  IF item.layouts[i][1].conv THEN item.layouts[i][1].label
  ELSE Num(item.layouts[i][1].n, item.idSize)

\* C5: a Switch item selects no variant for an identifier that matches none:
\* serialize fails when the identifier field of the value is the identifier or
\* label of no variant, deserialize fails when the identifier read is that of
\* no variant, and a decoded record carries the identifier that was read
C5_UnmatchedIdFails ==
  SwitchLayout =>
    LET item == layout.i
        variants == 1..Len(item.layouts)
    IN  /\ (Serialized /\ \A i \in variants :
                            IdValueOf(item, i) # Prop(value, IdTagOf(item)))
             => IsErr(encoded)
        /\ (Deserialized /\ Len(wire) >= item.idSize
                         /\ \A i \in variants :
                              IdBytesOf(item, i) # Take(wire, item.idSize))
             => IsErr(decoded)
        /\ (Deserialized /\ ~IsErr(decoded))
             => \E i \in variants :
                  /\ IdBytesOf(item, i) = Take(wire, item.idSize)
                  /\ Prop(decoded.val, IdTagOf(item)) = IdValueOf(item, i)

\* the identifier 9 of no variant has been read and refused
C5_Witness ==
  /\ layout = ItemLayout(PlainSwitch)
  /\ Deserialized /\ Len(wire) >= 2 /\ wire[1] = 9
  /\ IsErr(decoded)

\* a remainder item takes whatever is left, so cut bytes are not missed there
RECURSIVE HasRemainder(_)
HasRemainderItem(item) ==
  CASE IsNum(item) -> FALSE
    [] item.binary = "bytes" ->
         item.len.m = "rest" \/ (item.layout.p # "none" /\ HasRemainder(item.layout))
    [] item.binary = "array" -> item.len.m = "rest" \/ HasRemainder(item.layout)
    [] item.binary = "switch" ->
         \E i \in 1..Len(item.layouts) : HasRemainder(ProperLayout(item.layouts[i][2]))

HasRemainder(l) ==
  IF l.p = "item" THEN HasRemainderItem(l.i)
  ELSE \E i \in 1..Len(l.items) : HasRemainderItem(l.items[i])

CutShort == ~IsErr(encoded) /\ wire \in Prefixes(encoded.b)

\* C6: deserialize fails, and returns no value, when the bytes end before
\* everything the layout requires (a number, a sized or length-prefixed block,
\* a counted array element) has been read
C6_InsufficientBytesFail ==
  (valid /\ Deserialized /\ CutShort /\ ~HasRemainder(layout)) => IsErr(decoded)

\* a length-prefixed block of two bytes has been cut after its first byte
C6_Witness ==
  /\ layout = ProperLayout(<< Named("header", Seven), Named("field2", U8),
                              Named("field3", RawBytes(LengthPrefixed(1, "unset"))) >>)
  /\ valid /\ Deserialized /\ CutShort
  /\ Len(encoded.b) = 5 /\ Len(wire) = 4
  /\ IsErr(decoded)

\* C7: calcSize(L, v) is the number of bytes serialize(L, v) produces for every
\* value v valid for L; of a Switch item only the variant of v is counted
C7_CalcSizeMatches ==
  (valid /\ size # NotRun) => (~IsErr(encoded) /\ size = Size(Len(encoded.b)))

\* the second variant of a switch: identifier, prefix, two bytes, a number
C7_Witness ==
  /\ layout = ItemLayout(PlainSwitch) /\ valid
  /\ Prop(value, "id") = Num(2, 1) /\ Prop(value, "b") = Blob(<<0, 255>>)
  /\ size = Size(5) /\ Len(encoded.b) = 5

\* a length-prefixed or remainder Bytes or Array item, or a Switch item,
\* anywhere in the tree of a layout
RECURSIVE ValueDependent(_)
ValueDependentItem(item) ==
  CASE IsNum(item) -> FALSE
    [] item.binary = "bytes" ->
         \/ item.len.m \in {"prefix", "rest"}
         \/ (item.layout.p # "none" /\ ValueDependent(item.layout))
    [] item.binary = "array" ->
         item.len.m \in {"prefix", "rest"} \/ ValueDependent(item.layout)
    [] item.binary = "switch" -> TRUE

ValueDependent(l) ==
  IF l.p = "item" THEN ValueDependentItem(l.i)
  ELSE \E i \in 1..Len(l.items) : ValueDependentItem(l.items[i])

\* C8: calcStaticSize(layout) is a definite total, the encoded size of every
\* value valid for the layout, exactly when the layout has no length-prefixed
\* or remainder Bytes or Array item and no Switch item anywhere in its tree,
\* and is absent in every other case
C8_StaticSizeDefinite ==
  staticSize # NotRun =>
    /\ staticSize = Absent <=> ValueDependent(layout)
    /\ staticSize # Absent => staticSize = Size(Len(encoded.b))

\* the size of a token account of two optional fields and a state
C8_Witness ==
  /\ value.k = "obj" /\ "delegate" \in DOMAIN value.f
  /\ Prop(value, "delegate") = Undef
  /\ staticSize = Size(8) /\ Len(encoded.b) = 8

\* C9: addFixedValues(L, d) is fullValue for every fullValue valid for L, d
\* being fullValue on the fields of dynamicItemsOf(L), through Bytes
\* sub-layouts, Array element layouts and Switch variants
C9_AddFixedValuesRestores == merged # NotRun => merged = value

\* no Switch without variants, no variant without items, no nested layout of
\* a Bytes item and no element layout of an Array item without items
RECURSIVE NoEmptyBranch(_)
NoEmptyBranchItem(item) ==
  CASE item.binary = "null" -> TRUE
    [] IsNum(item) -> TRUE
    [] item.binary = "bytes" ->
         item.layout.p = "none"
         \/ (item.layout # ProperLayout(<<>>) /\ NoEmptyBranch(item.layout))
    [] item.binary = "array" ->
         item.layout # ProperLayout(<<>>) /\ NoEmptyBranch(item.layout)
    [] item.binary = "switch" ->
         /\ item.layouts # <<>>
         /\ \A i \in 1..Len(item.layouts) :
              /\ item.layouts[i][2] # <<>>
              /\ NoEmptyBranch(ProperLayout(item.layouts[i][2]))

NoEmptyBranch(l) ==
  CASE l.p = "null" -> TRUE
    [] l.p = "item" -> NoEmptyBranchItem(l.i)
    [] l.p = "proper" -> \A i \in 1..Len(l.items) : NoEmptyBranchItem(l.items[i])

\* C10: the layout fixedItemsOf or dynamicItemsOf returns has no branch
\* without matching content: a variant stays only with an item left in it,
\* and a Bytes nested layout, an Array element layout or a Switch left with
\* nothing is removed
C10_NoEmptyBranches ==
  /\ fixedItems # NotRun => NoEmptyBranch(fixedItems)
  /\ dynamicItems # NotRun => NoEmptyBranch(dynamicItems)

\* every place of a layout that carries a byte order, in the order of the
\* tree: Numeric items, length prefixes and switch identifiers, with the
\* width the order applies to
RECURSIVE OrdersOf(_)
RECURSIVE OrdersOfItems(_)
RECURSIVE OrdersOfPairs(_)
OrderPlace(kind, width, o) == [kind |-> kind, width |-> width, o |-> o]

PrefixOrderOf(len) ==
  IF len.m = "prefix"
  THEN <<OrderPlace("prefix", len.lengthSize, len.lengthEndianness)>>
  ELSE <<>>

OrdersOfItem(item) ==
  CASE IsNum(item) -> <<OrderPlace("num", item.size, item.endianness)>>
    [] item.binary = "bytes" ->
         PrefixOrderOf(item.len)
         \o (IF item.layout.p = "none" THEN <<>> ELSE OrdersOf(item.layout))
    [] item.binary = "array" -> PrefixOrderOf(item.len) \o OrdersOf(item.layout)
    [] item.binary = "switch" ->
         <<OrderPlace("id", item.idSize, item.idEndianness)>>
         \o OrdersOfPairs(item.layouts)

OrdersOfItems(items) ==
  IF items = <<>> THEN <<>>
  ELSE OrdersOfItem(Head(items)) \o OrdersOfItems(Tail(items))

OrdersOfPairs(pairs) ==
  IF pairs = <<>> THEN <<>>
  ELSE OrdersOfItems(Head(pairs)[2]) \o OrdersOfPairs(Tail(pairs))

OrdersOf(l) == IF l.p = "item" THEN OrdersOfItem(l.i) ELSE OrdersOfItems(l.items)

Reordered == reordered # NotRun

\* the places of the layout and of the result stand one to one
SamePlaces ==
  /\ Len(OrdersOf(reordered)) = Len(OrdersOf(layout))
  /\ \A i \in 1..Len(OrdersOf(layout)) :
       /\ OrdersOf(reordered)[i].kind = OrdersOf(layout)[i].kind
       /\ OrdersOf(reordered)[i].width = OrdersOf(layout)[i].width

\* C11 as stated: every Numeric item, switch identifier and length prefix
\* that had no order has the given order in the result of setEndianness, at
\* every depth
C11_EveryUnsetOrderSet ==
  Reordered =>
    /\ SamePlaces
    /\ \A i \in 1..Len(OrdersOf(layout)) :
         OrdersOf(layout)[i].o = "unset" => OrdersOf(reordered)[i].o = order

\* C11: every Numeric item, switch identifier and length prefix of more than
\* one byte that had no order has the given order in the result of
\* setEndianness, at every depth: in nested layouts of Bytes and Array items
\* and in every variant of a switch
C11_UnsetOrdersSet ==
  Reordered =>
    /\ SamePlaces
    /\ \A i \in 1..Len(OrdersOf(layout)) :
         (OrdersOf(layout)[i].o = "unset" /\ OrdersOf(layout)[i].width > 1)
           => OrdersOf(reordered)[i].o = order

\* the switch of the tests has come out little: its identifier, the items of
\* its first variant and the prefix in its second
C11_Witness ==
  /\ layout = ItemLayout(complexSwitchLayout) /\ order = "little" /\ Reordered
  /\ reordered.i.idEndianness = "little"
  /\ reordered.i.layouts[1][2][2].endianness = "little"
  /\ reordered.i.layouts[2][2][1].len.lengthEndianness = "little"
  /\ reordered.i.layouts[2][2][1].layout.i.endianness = "little"

EnItem == enumItem(<< <<"a", 1>>, <<"b", 2>> >>, 2)

\* C13: setEndianness with little on enumItem(entries, {size: 2}), made
\* without an endianness option, returns the item with endianness little
C13_EnumItemLittle ==
  (Reordered /\ layout = ItemLayout(EnItem) /\ order = "little") =>
    reordered = ItemLayout([EnItem EXCEPT !.endianness = "little"])

C13_Witness ==
  /\ Reordered /\ layout = ItemLayout(EnItem) /\ order = "little"
  /\ EnItem.endianness = "big"
  /\ reordered.i.endianness = "little" /\ reordered.i.custom = EnItem.custom

SpreadApplied == applied # NotRun /\ applied.fn = "spread"

\* C14: the two conversion functions of spread(L, name) are exact inverses:
\* from rebuilds the record that to flattened, and flattening that again
\* gives the same flat record
C14_SpreadInverse ==
  SpreadApplied =>
    /\ back = Ok(value)
    /\ spreadTo(applied, back.b) = forward

UnwrapApplied == applied # NotRun /\ applied.fn = "unwrapSingleton"

\* the one item of a layout that is not omitted
SingleItem(items) == items[CHOOSE i \in 1..Len(items) : ~IsOmitted(items[i])]

\* C15: unwrapSingleton decodes to the value of the one item that is not
\* omitted, so that it serializes under that item alone to the bytes the
\* record serializes to after the omitted constants, and on encode wraps it
\* under that item's name again, which gives the record back
C15_UnwrapSingleton ==
  UnwrapApplied =>
    /\ ~IsErr(forward) /\ back = Ok(value)
    /\ DOMAIN back.b.f = {SingleItem(layout.items).name}
    /\ forward.b = value.f[SingleItem(layout.items).name]
    /\ ~IsErr(serialize(ItemLayout(SingleItem(layout.items)), forward.b))

\* the record with an omitted version before its number has been unwrapped
C15_Witness ==
  /\ UnwrapApplied /\ layout = ProperLayout(Mixed)
  /\ forward = Ok(Num(255, 1))
  /\ back = Ok(Obj(Field("x", Num(255, 1))))

\* the omit flag as the item carries it
Flagged(item) == "omit" \in DOMAIN item /\ item.omit

\* no field of the value is the field of a flagged item, in the record, in
\* the records of nested layouts, in array elements and in the variant of a
\* switch the value selects
RECURSIVE OmitFree(_, _)
OmitFreeItem(item, v) ==
  CASE item.binary = "bytes" /\ item.layout.p # "none" /\ item.custom.c = "none" ->
         OmitFree(item.layout, v)
    [] item.binary = "array" ->
         v.k = "arr" => \A i \in 1..Len(v.e) : OmitFree(item.layout, v.e[i])
    [] item.binary = "switch" ->
         v.k = "obj" =>
           \A i \in variantsFor(item, Prop(v, IdTagOf(item))) :
             OmitFree(ProperLayout(item.layouts[i][2]), v)
    [] OTHER -> TRUE

OmitFree(l, v) ==
  IF l.p = "item" THEN OmitFreeItem(l.i, v)
  ELSE v.k = "obj" =>
         \A i \in 1..Len(l.items) :
           IF Flagged(l.items[i]) THEN l.items[i].name \notin DOMAIN v.f
           ELSE l.items[i].name \in DOMAIN v.f =>
                  OmitFreeItem(l.items[i], v.f[l.items[i].name])

\* the bytes of the constant of a flagged item
ConstantBytes(item) ==
  IF IsNum(item)
  THEN LET le == item.custom.v.mag \o Zeros(item.size - Len(item.custom.v.mag))
       IN  IF item.endianness = "little" THEN le ELSE Reverse(le)
  ELSE item.custom.v.b

FlaggedFirst == layout.p = "proper" /\ Flagged(layout.items[1])

\* C16: no field of an omit-flagged item is in a value deserialize or
\* addFixedValues produces, while serialize writes the bytes of its constant
\* and deserialize reads past as many bytes and decodes the rest after them
C16_OmittedNeverDecoded ==
  /\ (Deserialized /\ ~IsErr(decoded)) => OmitFree(layout, decoded.val)
  /\ (merged # NotRun /\ ~IsErr(merged)) => OmitFree(layout, merged)
  /\ (FlaggedFirst /\ Serialized /\ ~IsErr(encoded)) =>
       Take(encoded.b, Len(ConstantBytes(layout.items[1]))) = ConstantBytes(layout.items[1])
  /\ (FlaggedFirst /\ Deserialized /\ ~IsErr(decoded)) =>
       /\ Len(wire) >= Len(ConstantBytes(layout.items[1]))
       /\ decoded = deserialize(ProperLayout(Tail(layout.items)),
                                Drop(wire, Len(ConstantBytes(layout.items[1]))))

\* the record with two bytes of omitted padding has been decoded and merged
C16_Witness ==
  /\ layout = ProperLayout(<< Named("pad", Padding), Named("n", I8),
                              Named("sw", PlainSwitch) >>)
  /\ merged # NotRun /\ ~IsErr(merged) /\ ~IsErr(decoded)
  /\ Take(wire, 2) = <<0, 0>>
  /\ DOMAIN decoded.val.f = {"n", "sw"} /\ DOMAIN merged.f = {"n", "sw"}

ToApplied == applied = [fn |-> "to"]
FromApplied == applied = [fn |-> "from"]
Helper == layout.i.custom.fn

RawBit(v, i) ==
  IF (i \div 8) + 1 > Len(v.mag) THEN 0
  ELSE (v.mag[(i \div 8) + 1] \div (2 ^ (i % 8))) % 2

\* the raw number has no bit set that has no name
OnlyNamedBits(bitnames, v) ==
  \A i \in 0..(8 * Len(v.mag) - 1) :
    RawBit(v, i) = 1 => (i + 1 <= Len(bitnames) /\ bitnames[i + 1] # "")

BareError(r) == IsErr(r) /\ DOMAIN r = {"k", "m"}

Magnitude(i) == IF i < 0 THEN -i ELSE i
BigintDiv(x, y) ==
  IF (x < 0) = (y < 0) THEN Magnitude(x) \div Magnitude(y)
  ELSE -(Magnitude(x) \div Magnitude(y))
BigintRem(x, y) == x - y * BigintDiv(x, y)

\* new Rational(n, d): an object no reference names yet (ref below zero)
Rational(num, den) == [k |-> "rational", n |-> num, d |-> den, ref |-> -1]
IsFresh(x) == x.ref < 0

RECURSIVE gcd(_, _)
gcd(x, y) == IF y = 0 THEN x ELSE gcd(y, BigintRem(x, y))

stripSign(num) == IF num < 0 THEN -num ELSE num

normalize(num, den) ==
  LET g == gcd(stripSign(num), den)
  IN  <<BigintDiv(num, g), BigintDiv(den, g)>>

Normalized(num, den) == Rational(normalize(num, den)[1], normalize(num, den)[2])

\* an argument: a bigint, a number that is an integer, or a Rational
Bigint(v) == [k |-> "bigint", v |-> v]
Number(v) == [k |-> "number", v |-> v]
IsRational(x) == x.k = "rational"

\* Rational.from(numerator, denominator) of bigints
fromBigints(numerator, denominator) ==
  IF denominator = 0 THEN Err("Denominator cannot be zero")
  ELSE IF denominator < 0 THEN Normalized(-numerator, -denominator)
  ELSE Normalized(numerator, denominator)

\* Rational.from(value)
from(x) ==
  CASE x.k = "number" -> Rational(x.v, 1)
    [] x.k = "bigint" -> Rational(x.v, 1)
    [] OTHER -> x

unwrap(x) == <<x.n, x.d>>

floor(x) ==
  LET intPart == BigintDiv(x.n, x.d)
  IN  IF x.n < 0 /\ BigintRem(x.n, x.d) # 0 THEN intPart - 1 ELSE intPart

neg(this) == IF this.n = 0 THEN this ELSE Rational(-this.n, this.d)

abs(this) == IF this.n < 0 THEN neg(this) ELSE this

inv(this) ==
  IF this.n = 0 THEN Err("Cannot invert zero")
  ELSE IF this.n < 0 THEN Rational(-this.d, -this.n)
  ELSE Rational(this.d, this.n)

add(this, other) ==
  IF ~IsRational(other) THEN Normalized(this.n + other.v * this.d, this.d)
  ELSE LET g == gcd(this.d, other.d)
           lcm == BigintDiv(this.d, g) * other.d
           num == this.n * BigintDiv(lcm, this.d) + other.n * BigintDiv(lcm, other.d)
       IN  Normalized(num, lcm)

sub(this, other) ==
  add(this, IF IsRational(other) THEN neg(other) ELSE [other EXCEPT !.v = -other.v])

mul(this, other) ==
  IF ~IsRational(other)
    THEN LET g == gcd(stripSign(other.v), this.d)
         IN  Rational(this.n * BigintDiv(other.v, g), BigintDiv(this.d, g))
    ELSE LET gcd1 == gcd(stripSign(this.n), other.d)
             gcd2 == gcd(stripSign(other.n), this.d)
         IN  Rational(BigintDiv(this.n, gcd1) * BigintDiv(other.n, gcd2),
                      BigintDiv(this.d, gcd2) * BigintDiv(other.d, gcd1))

div(this, other) ==
  IF ~IsRational(other)
    THEN IF other.v = 0 THEN Err("Cannot divide by zero")
         ELSE LET parts == normalize(this.n, other.v)
              IN  Rational(parts[1], parts[2] * this.d)
    ELSE IF IsErr(inv(other)) THEN inv(other) ELSE mul(this, inv(other))

mod(this, other) ==
  LET divisor == from(other)
      quotient == div(this, divisor)
  IN  IF IsErr(quotient) THEN quotient
      ELSE sub(this, mul(divisor, Bigint(floor(quotient))))

MaxRational == 6
ArgRange == 2

WithinBounds(x) == Magnitude(x.n) <= MaxRational /\ Magnitude(x.d) <= MaxRational

SmallIntegers == (-ArgRange)..ArgRange

\* the object a reference to the result names: a new one, or one there was
Placed(x) == IF IsFresh(x) THEN [x EXCEPT !.ref = (receiver.ref + 1) % 3] ELSE x

\* the arguments an operation is called with; a Rational among them is an
\* object of its own
Others ==
  { Bigint(v) : v \in SmallIntegers } \union { Number(v) : v \in SmallIntegers }
    \union { [fromBigints(p, q) EXCEPT !.ref = (receiver.ref + 2) % 3] :
               p \in SmallIntegers, q \in 1..ArgRange }

RationalInit ==
  /\ receiver = NotRun /\ made = NotRun
  /\ LayoutingIdle /\ ForkSvmIdle /\ BigintsIdle

Returns(op, arg, outcome) ==
  /\ IF IsErr(outcome) THEN TRUE ELSE WithinBounds(outcome)
  /\ receiver' = IF IsErr(outcome) THEN receiver ELSE Placed(outcome)
  /\ made' = [op |-> op, arg |-> arg, source |-> receiver, threw |-> IsErr(outcome)]
  /\ UNCHANGED <<layouting, forkSvm, bigints>>

\* Rational.from(value) and Rational.from(numerator, denominator), which an
\* expression begins with
From ==
  \/ \E v \in SmallIntegers, kind \in {"bigint", "number"} :
       /\ receiver = NotRun
       /\ receiver' = [Rational(v, 1) EXCEPT !.ref = 0]
       /\ made' = [op |-> "from", arg |-> [k |-> kind, v |-> v], source |-> NotRun,
                   threw |-> FALSE]
       /\ UNCHANGED <<layouting, forkSvm, bigints>>
  \/ \E p \in SmallIntegers, q \in SmallIntegers :
       LET outcome == fromBigints(p, q)
       IN  /\ receiver = NotRun
           /\ receiver' = IF IsErr(outcome) THEN receiver
                          ELSE [outcome EXCEPT !.ref = 0]
           /\ made' = [op |-> "from", arg |-> <<p, q>>, source |-> NotRun,
                       threw |-> IsErr(outcome)]
           /\ UNCHANGED <<layouting, forkSvm, bigints>>

\* Rational.from(r) of the Rational held
FromRational == receiver # NotRun /\ Returns("from", receiver, from(receiver))

Add == receiver # NotRun /\ \E other \in Others : Returns("add", other, add(receiver, other))
Sub == receiver # NotRun /\ \E other \in Others : Returns("sub", other, sub(receiver, other))
Mul == receiver # NotRun /\ \E other \in Others : Returns("mul", other, mul(receiver, other))
Div == receiver # NotRun /\ \E other \in Others : Returns("div", other, div(receiver, other))
Mod == receiver # NotRun /\ \E other \in Others : Returns("mod", other, mod(receiver, other))
Neg == receiver # NotRun /\ Returns("neg", NotRun, neg(receiver))
Abs == receiver # NotRun /\ Returns("abs", NotRun, abs(receiver))
Inv == receiver # NotRun /\ Returns("inv", NotRun, inv(receiver))

RationalNext ==
  \/ From
  \/ FromRational
  \/ Add
  \/ Sub
  \/ Mul
  \/ Div
  \/ Mod
  \/ Neg
  \/ Abs
  \/ Inv

SpecRational == RationalInit /\ [][RationalNext]_vars

\* ------------------------------------------------------ bigints in JSON

\* the values of JavaScript that JSON can carry, and bigints; a string is
\* the sequence of its characters, an object the sequence of its entries
JNull == [k |-> "null"]
JBool(b) == [k |-> "boolean", v |-> b]
JNumber(v) == [k |-> "number", v |-> v]
JString(chars) == [k |-> "string", v |-> chars]
JBigint(v) == [k |-> "bigint", v |-> v]
JArray(elements) == [k |-> "array", v |-> elements]
JObject(entries) == [k |-> "object", v |-> entries]

Property(key, v) == [key |-> key, v |-> v]

DecimalDigits == <<"0", "1", "2", "3", "4", "5", "6", "7", "8", "9">>

RECURSIVE digitsOf(_)
digitsOf(v) ==
  IF v < 10 THEN <<DecimalDigits[v + 1]>>
  ELSE Append(digitsOf(v \div 10), DecimalDigits[(v % 10) + 1])

\* value.toString(10) of a bigint
toString10(v) == IF v < 0 THEN <<"-">> \o digitsOf(-v) ELSE digitsOf(v)

DigitValue(c) == CHOOSE i \in 0..9 : DecimalDigits[i + 1] = c
IsDigit(c) == \E i \in 1..10 : DecimalDigits[i] = c

RECURSIVE valueOfDigits(_)
valueOfDigits(chars) ==
  IF chars = <<>> THEN 0
  ELSE valueOfDigits(SubSeq(chars, 1, Len(chars) - 1)) * 10
         + DigitValue(chars[Len(chars)])

\* BigInt(string) of a decimal literal; the empty string is 0n, anything that
\* is not a number throws
BigIntOf(chars) ==
  LET signed == chars # <<>> /\ chars[1] \in {"-", "+"}
      body == IF signed THEN Tail(chars) ELSE chars
  IN  IF chars = <<>> THEN JBigint(0)
      ELSE IF body = <<>> \/ \E i \in 1..Len(body) : ~IsDigit(body[i])
        THEN Err("SyntaxError")
      ELSE JBigint(IF chars[1] = "-" THEN -valueOfDigits(body) ELSE valueOfDigits(body))

BigintTag == JString(<<"b", "i", "g", "i", "n", "t">>)

HasKey(x, key) == \E i \in 1..Len(x.v) : x.v[i].key = key
Get(x, key) == x.v[CHOOSE i \in 1..Len(x.v) : x.v[i].key = key].v

isSerializedBigint(x) ==
  /\ x.k = "object"
  /\ HasKey(x, "$type")
  /\ HasKey(x, "value")
  /\ Get(x, "$type") = BigintTag
  /\ Get(x, "value").k = "string"

\* a reviver that hands every value back
bigintReviver_idle(x) == x

bigintReplacer(x) ==
  IF x.k = "bigint"
    THEN JObject(<<Property("$type", BigintTag), Property("value", JString(toString10(x.v)))>>)
    ELSE x

bigintReviver(x) == IF isSerializedBigint(x) THEN BigIntOf(Get(x, "value").v) ELSE x

\* the text of JSON, token by token
Token(t) == [t |-> t]
Literal(x) == [t |-> "literal", x |-> x]
Name(key) == [t |-> "name", key |-> key]

\* JSON.stringify(x, replacer): the replacer sees every value before it is
\* written, the values of what it returns included; a bigint that is left
\* throws
RECURSIVE stringify(_, _), stringifyAll(_, _, _)
stringify(x, replacing) ==
  LET seen == IF replacing THEN bigintReplacer(x) ELSE x
  IN  CASE seen.k = "bigint" -> Err("TypeError")
        [] seen.k = "array" ->
             LET inner == stringifyAll(seen.v, FALSE, replacing)
             IN  IF IsErr(inner) THEN inner
                 ELSE [k |-> "text", t |-> <<Token("[")>> \o inner.t \o <<Token("]")>>]
        [] seen.k = "object" ->
             LET inner == stringifyAll(seen.v, TRUE, replacing)
             IN  IF IsErr(inner) THEN inner
                 ELSE [k |-> "text", t |-> <<Token("{")>> \o inner.t \o <<Token("}")>>]
        [] OTHER -> [k |-> "text", t |-> <<Literal(seen)>>]

stringifyAll(members, named, replacing) ==
  IF members = <<>> THEN [k |-> "text", t |-> <<>>]
  ELSE LET first == stringify(IF named THEN Head(members).v ELSE Head(members), replacing)
           rest == stringifyAll(Tail(members), named, replacing)
       IN  IF IsErr(first) THEN first
           ELSE IF IsErr(rest) THEN rest
           ELSE [k |-> "text",
                 t |-> (IF named THEN <<Name(Head(members).key), Token(":")>> ELSE <<>>)
                         \o first.t
                         \o (IF Tail(members) = <<>> THEN <<>> ELSE <<Token(",")>>)
                         \o rest.t]

\* JSON.parse(text): the value a text begins with and the text after it
RECURSIVE parseValue(_), parseMembers(_, _, _)
parseValue(tokens) ==
  CASE Head(tokens).t = "[" -> parseMembers(Tail(tokens), FALSE, <<>>)
    [] Head(tokens).t = "{" -> parseMembers(Tail(tokens), TRUE, <<>>)
    [] OTHER -> [x |-> Head(tokens).x, rest |-> Tail(tokens)]

parseMembers(tokens, named, members) ==
  IF Head(tokens).t \in {"]", "}"}
    THEN [x |-> IF named THEN JObject(members) ELSE JArray(members),
          rest |-> Tail(tokens)]
  ELSE IF Head(tokens).t = "," THEN parseMembers(Tail(tokens), named, members)
  ELSE IF named
    THEN LET member == parseValue(Tail(Tail(tokens)))
         IN  parseMembers(member.rest, named,
                          Append(members, Property(Head(tokens).key, member.x)))
    ELSE LET member == parseValue(tokens)
         IN  parseMembers(member.rest, named, Append(members, member.x))

\* the reviver of JSON.parse: the members of a value first, then the value
RECURSIVE revive(_), reviveAll(_, _)
revive(x) ==
  CASE x.k = "array" ->
         LET inner == reviveAll(x.v, FALSE)
         IN  IF IsErr(inner) THEN inner ELSE bigintReviver(JArray(inner.v))
    [] x.k = "object" ->
         LET inner == reviveAll(x.v, TRUE)
         IN  IF IsErr(inner) THEN inner ELSE bigintReviver(JObject(inner.v))
    [] OTHER -> bigintReviver(x)

reviveAll(members, named) ==
  IF members = <<>> THEN [k |-> "members", v |-> <<>>]
  ELSE LET first == revive(IF named THEN Head(members).v ELSE Head(members))
           rest == reviveAll(Tail(members), named)
       IN  IF IsErr(first) THEN first
           ELSE IF IsErr(rest) THEN rest
           ELSE [k |-> "members",
                 v |-> <<IF named THEN Property(Head(members).key, first) ELSE first>>
                         \o rest.v]

\* JSON.parse(text, reviver) and JSON.parse(text)
parse(tokens, reviving) ==
  IF reviving THEN revive(parseValue(tokens).x) ELSE parseValue(tokens).x

stringifyWithBigints(x) == stringify(x, TRUE)
parseWithBigints(tokens) == parse(tokens, TRUE)

serializeBigints(x) ==
  LET written == stringify(x, TRUE)
  IN  IF IsErr(written) THEN written ELSE parse(written.t, FALSE)

deserializeBigints(x) ==
  LET written == stringify(x, FALSE)
  IN  IF IsErr(written) THEN written ELSE parse(written.t, TRUE)

MaxCycles == 3

Leaves ==
  { JNull, JBool(TRUE), JNumber(1), JString(<<"5">>),
    JBigint(0), JBigint(5), JBigint(-12), JBigint(123) }

\* an object of the shape a bigint is written as
Tagged(x) == JObject(<<Property("$type", BigintTag), Property("value", x)>>)

JsonInputs ==
  Leaves
    \union { JArray(<<>>), JObject(<<>>) }
    \union { JArray(<<a, b>>) : a \in Leaves, b \in Leaves }
    \union { JObject(<<Property("a", a), Property("b", JArray(<<b>>))>>) :
               a \in Leaves, b \in Leaves }
    \union { Tagged(JString(<<"5">>)), Tagged(JString(<<>>)),
             Tagged(JString(<<"a", "b", "c">>)), Tagged(JBigint(5)), Tagged(JNumber(5)),
             JObject(<<Property("a", Tagged(JString(<<"5">>)))>>),
             JArray(<<Tagged(JString(<<"-", "1", "2">>))>>) }

BigintsInit ==
  /\ jsonIn \in [x : JsonInputs,
                 via : {"stringifyWithBigints", "JSON.stringify", "serializeBigints"}]
  /\ jsonText = <<>> /\ jsonOut = NotRun /\ serialized = NotRun /\ cycles = 0
  /\ LayoutingIdle /\ ForkSvmIdle /\ RationalIdle

\* stringifyWithBigints(x)
StringifyWithBigints ==
  /\ jsonIn.via = "stringifyWithBigints" /\ jsonText = <<>>
  /\ jsonText' = stringifyWithBigints(jsonIn.x).t
  /\ UNCHANGED <<jsonIn, jsonOut, serialized, cycles, layouting, forkSvm, rationals>>

\* parseWithBigints(text)
ParseWithBigints ==
  /\ jsonIn.via = "stringifyWithBigints" /\ jsonText # <<>> /\ jsonOut = NotRun
  /\ jsonOut' = parseWithBigints(jsonText)
  /\ UNCHANGED <<jsonIn, jsonText, serialized, cycles, layouting, forkSvm, rationals>>

\* JSON.stringify(x, bigintReplacer)
StringifyWithReplacer ==
  /\ jsonIn.via = "JSON.stringify" /\ jsonText = <<>>
  /\ jsonText' = stringify(jsonIn.x, TRUE).t
  /\ UNCHANGED <<jsonIn, jsonOut, serialized, cycles, layouting, forkSvm, rationals>>

\* JSON.parse(text, bigintReviver)
ParseWithReviver ==
  /\ jsonIn.via = "JSON.stringify" /\ jsonText # <<>> /\ jsonOut = NotRun
  /\ jsonOut' = parse(jsonText, TRUE)
  /\ UNCHANGED <<jsonIn, jsonText, serialized, cycles, layouting, forkSvm, rationals>>

\* the value a round trip starts from
Current == IF jsonOut = NotRun THEN jsonIn.x ELSE jsonOut

\* serialized = serializeBigints(current)
SerializeBigints ==
  /\ jsonIn.via = "serializeBigints" /\ serialized = NotRun /\ cycles < MaxCycles
  /\ ~IsErr(Current)
  /\ serialized' = serializeBigints(Current)
  /\ UNCHANGED <<jsonIn, jsonText, jsonOut, cycles, layouting, forkSvm, rationals>>

\* current = deserializeBigints(serialized)
DeserializeBigints ==
  /\ jsonIn.via = "serializeBigints" /\ serialized # NotRun
  /\ jsonOut' = deserializeBigints(serialized)
  /\ serialized' = NotRun
  /\ cycles' = cycles + 1
  /\ UNCHANGED <<jsonIn, jsonText, layouting, forkSvm, rationals>>

BigintsNext ==
  \/ StringifyWithBigints
  \/ ParseWithBigints
  \/ StringifyWithReplacer
  \/ ParseWithReviver
  \/ SerializeBigints
  \/ DeserializeBigints

SpecBigints == BigintsInit /\ [][BigintsNext]_vars

\* ------------------------------------------------------- claims on fork-svm

\* C21: after ForkSvm.load(f.save()), getAccount of every address f knew when
\* it saved returns the account f held then, the lamports included
C21_SnapshotRestored ==
  lastOp.op = "ForkSvm.load" =>
    \A i \in 1..Len(saved[lastOp.snapshot].accounts) :
      LET entry == saved[lastOp.snapshot].accounts[i]
      IN  /\ ~isUnfetched(entry.address)
          /\ liteGetAccount(liteAccounts, entry.address) = entry.account

\* C22: a request to upstream names only addresses that are neither special
\* nor known when it is sent, and outside load (and a new instance) no
\* address leaves the known set, so that an address once known is never
\* asked for by an operation begun later
C22_FetchOnlyUnknown ==
  [][ /\ lastRequest' # lastRequest =>
           \A a \in lastRequest'.addresses :
             a \notin special /\ a \notin Elements(known)
      /\ lastOp'.op \notin {"load", "ForkSvm.load", "new"} =>
           Elements(known) \subseteq Elements(known') ]_vars

\* getAccount of a known address has returned its account without waiting
\* for upstream, with an rpc client at hand
C22_Witness ==
  /\ lastOp.op = "getAccount" /\ lastOp.addresses = <<"payer">>
  /\ ~lastOp.awaited /\ rpc # Undefined
  /\ "payer" \in Elements(known)
  /\ lastRequest.addresses # {}

\* C23 as stated: after setClock(timestamp, slot) of any Date and any slot,
\* latestTimestamp() is the same instant and latestSlot() is slot
C23_SetClockAnyDate ==
  (lastOp.op = "setClock" /\ lastOp.timestamp # Undefined /\ lastOp.slot # Undefined) =>
    /\ latestTimestampOf(liteClock) = lastOp.timestamp
    /\ liteClock.slot = lastOp.slot.n

\* C23: after setClock(timestamp, slot) of a Date on a whole second,
\* latestTimestamp() is that instant and latestSlot() is slot; of a Date with
\* a millisecond part setClock throws and the clock stays as it was
C23_SetClockWholeSeconds ==
  lastOp.op = "setClock" =>
    /\ lastOp.threw <=> (lastOp.timestamp # Undefined /\ lastOp.timestamp.ms % 1000 # 0)
    /\ lastOp.threw => liteClock = lastOp.before
    /\ ~lastOp.threw =>
         /\ lastOp.timestamp # Undefined =>
              latestTimestampOf(liteClock) = lastOp.timestamp
         /\ lastOp.slot # Undefined => liteClock.slot = lastOp.slot.n

\* setClock of a Date on a second and a slot has moved the clock to both
C23_Witness ==
  /\ lastOp.op = "setClock" /\ ~lastOp.threw
  /\ lastOp.timestamp = Date(60000) /\ lastOp.slot = Slot(100)
  /\ lastOp.before # liteClock
  /\ latestTimestampOf(liteClock) = Date(60000) /\ liteClock.slot = 100

\* C27: when an operation that waited for upstream goes on, the accounts it
\* fetched do not replace an account that was set while it waited
C27_LocalChangesKept ==
  lastOp.op \in {"getAccount", "airdrop", "sendTransaction", "simulateTransaction"} =>
    lastOp.overwritten = {}

InstalledBefore(k) == { lastOp.installed[j].address : j \in 1..(k - 1) }

C29_SnapshotFrozen ==
  \A k \in 1..Len(snapshots) : Contents(snapshots[k]) = saved[k]

\* C30: a load that throws over a setting other than the url leaves the
\* instance as it was: settings, rpc client, known addresses, accounts, clock
C30_FailedLoadChangesNothing ==
  (lastOp.op = "load" /\ lastOp.threw) =>
    ThisInstance = lastOp.before

\* -------------------------------------------------------- claims on Rational

Divides(g, i) == i % g = 0

\* C24: every Rational the operations return has, as unwrap() shows it, a
\* denominator above zero and a numerator that shares no divisor with it
C24_AlwaysNormalized ==
  receiver # NotRun =>
    /\ unwrap(receiver)[2] > 0
    /\ \A g \in 2..MaxRational :
         ~(Divides(g, unwrap(receiver)[1]) /\ Divides(g, unwrap(receiver)[2]))

\* C25: Rational.from(r) of a Rational r returns an object other than r,
\* with the numerator and the denominator of r
C25_FromRationalIsFresh ==
  (made # NotRun /\ made.op = "from" /\ made.source # NotRun) =>
    /\ receiver.ref # made.source.ref
    /\ unwrap(receiver) = unwrap(made.source)

\* ------------------------------------------------- claims on bigints in JSON

\* whether a value holds an object of the shape a bigint is written as
RECURSIVE HoldsTagged(_)
HoldsTagged(x) ==
  CASE x.k = "array" -> \E i \in 1..Len(x.v) : HoldsTagged(x.v[i])
    [] x.k = "object" ->
         isSerializedBigint(x) \/ \E i \in 1..Len(x.v) : HoldsTagged(x.v[i].v)
    [] OTHER -> FALSE

\* a value has come back: from the parse, or from a round trip of
\* serializeBigints and deserializeBigints
CameBack == jsonOut # NotRun /\ serialized = NotRun

\* C26 as stated: whatever JSON can carry, bigints among its leaves, comes
\* back equal from stringify and parse and from every round trip
C26_RoundTrip == CameBack => jsonOut = jsonIn.x

\* C26: a value that holds no object {$type: "bigint", value: string}
\* comes back equal from stringify and parse and from every round trip
C26_RoundTripUntagged ==
  (CameBack /\ ~HoldsTagged(jsonIn.x)) => jsonOut = jsonIn.x

\* three round trips have brought back an object with bigints in it, one
\* of them of more than one digit and below zero
C26_Witness ==
  /\ jsonIn.via = "serializeBigints" /\ cycles = MaxCycles /\ serialized = NotRun
  /\ jsonIn.x = JObject(<<Property("a", JBigint(-12)),
                          Property("b", JArray(<<JBigint(123)>>))>>)
  /\ jsonOut = jsonIn.x

====
